---- MODULE Spec2Model ----
(***************************************************************************)
(* Request orchestration engine of the command center:                     *)
(*   - ActionOrchestrator.execute_plan   (command_center/orchestrator.py)  *)
(*   - LLMCommandCenter.handle           (command_center/llm_command_center.py) *)
(*   - the autonomous agent graph        (command_center/autonomous/...)   *)
(*     driven by the execute / approve endpoints (command_center/api.py)   *)
(*   - CommandCenter.handle: RequestParser, ActionRouter, execute_plan     *)
(*     (command_center/command_center.py)                                  *)
(*   - router_node called on its own (autonomous/nodes/router.py)          *)
(*   - the session registry and the command executors (api.py,            *)
(*     action_agent/command_executor.py, autonomous/tools/tool_registry.py)*)
(*   - the event loop serving the endpoints (api.py)                       *)
(*   - FunctionCaller.call_functions (command_center/function_caller.py)   *)
(*   - summarize_node called on its own (autonomous/nodes/summarize.py)    *)
(*   - the compiled graph invoked without the endpoint in front            *)
(*   - ConversationState (command_center/conversation_state.py)            *)
(*   - StateManager used by several threads (action_agent/state_manager.py)*)
(* Each part has its own specification over the shared variable tuple.     *)
(***************************************************************************)
EXTENDS Integers, Sequences, FiniteSets, TLC

VARIABLES
    \* ---- ActionOrchestrator.execute_plan ----
    plan,            \* the plan argument: sequence of step records
    fail_fast,       \* the fail_fast argument
    ep_i,            \* index of the next plan step of the for loop (1-based)
    steps,           \* local list "steps"
    errors,          \* local list "errors"
    ep_pc,           \* "loop", "finish", "returned", "raised"
    ep_result,       \* the returned record
    invoked,         \* history: plan indices whose function was called
    failed_at,       \* history: index of the first failed step (0: none)
    \* ---- LLMCommandCenter.handle ----
    max_iterations,  \* the max_iterations argument
    iterations,      \* local counter "iterations"
    h_messages,      \* local list "messages" (role and kind of each entry)
    h_tool_results,  \* local list "tool_results"
    h_pc,            \* "loop", "done"
    h_response,      \* the returned record
    oracle_calls,    \* history: number of chat_with_functions calls
    oracle_failed,   \* history: a chat_with_functions call returned an error
    calls_after_failure, \* history: oracle or tool calls made after an oracle failure
    \* ---- autonomous agent graph behind /api/execute and /api/approve ----
    state,           \* AgentState of the session's thread
    node,            \* node the traversal is at: "idle" before a request,
                     \* a node name while the graph runs, "end" at END,
                     \* "suspended" when hil_node interrupted
    checkpoint,      \* checkpointer record of the thread: values and next node
    response,        \* ExecuteResponse of the last execute request
    ran,             \* history: nodes completed in the current traversal
    executed,        \* history: tool calls invoked in the current traversal
    proposed,        \* history: tool calls proposed by the agent, per call id
    caller,          \* the endpoint that invoked the graph: "execute" or "approve"
    g_oracle_calls,  \* history: oracle calls of the current traversal
    agent_turns,     \* history: agent_node runs of the current traversal
    g_agent_failed,  \* history: an agent oracle call raised in this traversal
    g_after_failure, \* history: oracle and tool calls after that failure
    planner_call,    \* history: what the planner's oracle call did in this traversal
    \* ---- CommandCenter.handle: parser, router, orchestrator ----
    c_request,       \* the request argument of handle
    c_pc,            \* "parse", "route", "execute", "finish", "done", "raised"
    c_intent,        \* parsed_intent (action and target)
    c_plan,          \* the plan the router returned
    c_i,             \* index of the next plan step of execute_plan's loop
    c_steps,         \* execute_plan's list "steps"
    c_errors,        \* execute_plan's list "errors"
    c_response,      \* the record handle returned
    c_invoked,       \* history: functions called for the current request
    system,          \* ServiceManager.system: platform.system() of the host
    svc_running,     \* environment: whether the target service is running
    svc_initial,     \* history: svc_running when the current request arrived
    cmd_failed,      \* history: a command of the current request exited non-zero
    action_plans,    \* ActionRouter.action_plans (the stored templates)
    r_calls,         \* history: intents passed to ActionRouter.route directly
    r_plan,          \* the step list the last direct route call returned
    \* ---- router_node called on its own ----
    k_pc,            \* "idle", "input" (states drawn) or "done" (router_node ran)
    k_state,         \* the AgentState passed to router_node
    k_other,         \* a second AgentState with the same first user message
    k_out,           \* the state router_node returned for k_state
    k_other_out,     \* the state router_node returned for k_other
    \* ---- api.py: session registry and the executors behind the tools ----
    sessions,        \* _sessions: session id -> session data
    tool_executor,   \* tool_registry._executor (module global of the agentic tools)
    api_call,        \* history: the last call made and what it did
    \* ---- api.py: requests on the server's event loop ----
    l_requests,      \* the requests received so far, in arrival order
    l_pc,            \* per request: "pending", "enter", "invoke" or "returned"
    \* ---- FunctionCaller.call_functions called on its own ----
    fc_pc,           \* "idle", "input" (tool calls drawn) or "done"
    fc_tool_calls,   \* the tool_calls argument
    fc_results,      \* the list call_functions returned
    \* ---- summarize_node called on its own ----
    sm_pc,           \* "idle", "input" (state drawn) or "done"
    sm_state,        \* the AgentState passed to summarize_node
    sm_out,          \* the state summarize_node returned
    \* ---- ConversationState ----
    conversation,    \* the object's fields
    cs_commands,     \* history: every command given to add_command, in order
    cs_actions,      \* history: every action given to _add_action, in order
    cs_ops,          \* history: number of calls made since Init
    \* ---- StateManager used by several threads ----
    st_current_directory, \* self.current_directory
    st_history,      \* self.history
    st_lock,         \* self._lock: the thread holding it, or None
    st_pc,           \* per thread: position in change_directory / reset
    st_call,         \* per thread: the running call (path, locals, snapshot at entry)
    st_result,       \* per thread: what its last returned call did
    st_calls         \* history: number of calls started

ep_vars == <<plan, fail_fast, ep_i, steps, errors, ep_pc, ep_result, invoked, failed_at>>
h_vars == <<max_iterations, iterations, h_messages, h_tool_results, h_pc,
            h_response, oracle_calls, oracle_failed, calls_after_failure>>
g_vars == <<state, node, checkpoint, response, ran, executed, proposed, caller,
            g_oracle_calls, agent_turns, g_agent_failed, g_after_failure, planner_call>>
c_vars == <<c_request, c_pc, c_intent, c_plan, c_i, c_steps, c_errors, c_response,
            c_invoked, system, svc_running, svc_initial, cmd_failed, action_plans,
            r_calls, r_plan>>
k_vars == <<k_pc, k_state, k_other, k_out, k_other_out>>
s_vars == <<sessions, tool_executor, api_call>>
l_vars == <<l_requests, l_pc>>
fc_vars == <<fc_pc, fc_tool_calls, fc_results>>
sm_vars == <<sm_pc, sm_state, sm_out>>
cs_vars == <<conversation, cs_commands, cs_actions, cs_ops>>
st_vars == <<st_current_directory, st_history, st_lock, st_pc, st_call, st_result, st_calls>>
vars == <<ep_vars, h_vars, g_vars, c_vars, k_vars, s_vars, l_vars, fc_vars, sm_vars, cs_vars, st_vars>>

\* ---------------------------------------------------------------------
\* Bounds of the model
MaxPlanLen == 3
MaxIterations == 2
MaxCalls == 2

None == "None"

\* ---------------------------------------------------------------------
\* ActionOrchestrator.execute_plan
\* ---------------------------------------------------------------------

\* keys of self.function_map
function_map == {"run_command", "check_service", "start_service",
                 "stop_service", "restart_service", "list_services"}

\* function names a plan step may carry: two registered, one unregistered
PlanFunctions == {"check_service", "run_command", "no_such_function"}

\* what func(*args) can do: return a result reporting success, return a
\* result reporting failure (success false or missing, or a falsy non-dict),
\* or raise
FunctionOutcomes == {"ok", "fail", "raise"}

\* "if fail_fast: break" after a failed step
BreakOnFailure_NeverBreak(failed, ff) == FALSE

BreakOnFailure(failed, ff) == failed /\ ff

\* the entry appended to "steps" for plan step i
StepEntry(i, fn, success, has_result) ==
    [step |-> i, function |-> fn, success |-> success, has_result |-> has_result]

\* steps[-1]["result"] raises KeyError when the last entry has no "result" key
FinalResultRaises(s) == Len(s) > 0 /\ ~s[Len(s)].has_result

\* success = len(errors) == 0 and all(step.get("success", False) for step in steps)
OverallSuccess_LastStep(s, e) == s[Len(s)].success

OverallSuccess(s, e) == Len(e) = 0 /\ \A j \in 1..Len(s) : s[j].success

PlanInit ==
    /\ plan \in UNION {[1..n -> PlanFunctions] : n \in 0..MaxPlanLen}
    /\ fail_fast \in BOOLEAN
    /\ ep_i = 1
    /\ steps = <<>>
    /\ errors = <<>>
    /\ ep_pc = "loop"
    /\ ep_result = None
    /\ invoked = <<>>
    /\ failed_at = 0

PlanIdle ==
    /\ plan = <<>>
    /\ fail_fast = TRUE
    /\ ep_i = 1
    /\ steps = <<>>
    /\ errors = <<>>
    /\ ep_pc = "returned"
    /\ ep_result = None
    /\ invoked = <<>>
    /\ failed_at = 0

\* "if not plan: return {...}"
EmptyPlan ==
    /\ ep_pc = "loop"
    /\ Len(plan) = 0
    /\ ep_pc' = "returned"
    /\ ep_result' = [success |-> FALSE, steps |-> <<>>, final_result |-> None,
                     errors |-> <<"Empty action plan">>]
    /\ UNCHANGED <<plan, fail_fast, ep_i, steps, errors, invoked, failed_at>>
    /\ UNCHANGED <<h_vars, g_vars, c_vars, k_vars, s_vars, l_vars, fc_vars, sm_vars, cs_vars, st_vars>>

\* one iteration of "for i, step in enumerate(plan)"
ExecuteStep ==
    /\ ep_pc = "loop"
    /\ Len(plan) > 0
    /\ ep_i <= Len(plan)
    /\ LET fn == plan[ep_i] IN
       IF fn \notin function_map
       THEN \* unknown function: recorded as failed, nothing is called
            /\ errors' = Append(errors, "Unknown function")
            /\ steps' = Append(steps, StepEntry(ep_i, fn, FALSE, FALSE))
            /\ invoked' = invoked
            /\ failed_at' = IF failed_at = 0 THEN ep_i ELSE failed_at
            /\ ep_pc' = IF BreakOnFailure(TRUE, fail_fast) \/ ep_i = Len(plan)
                        THEN "finish" ELSE "loop"
       ELSE \E out \in FunctionOutcomes :
            /\ invoked' = Append(invoked, ep_i)
            /\ steps' = Append(steps, StepEntry(ep_i, fn, out = "ok", out # "raise"))
            /\ errors' = IF out = "ok" THEN errors
                         ELSE IF out = "fail" THEN Append(errors, "Step failed")
                         ELSE Append(errors, "exception")
            /\ failed_at' = IF failed_at = 0 /\ out # "ok" THEN ep_i ELSE failed_at
            /\ ep_pc' = IF BreakOnFailure(out # "ok", fail_fast) \/ ep_i = Len(plan)
                        THEN "finish" ELSE "loop"
    /\ ep_i' = ep_i + 1
    /\ UNCHANGED <<plan, fail_fast, ep_result>>
    /\ UNCHANGED <<h_vars, g_vars, c_vars, k_vars, s_vars, l_vars, fc_vars, sm_vars, cs_vars, st_vars>>

\* lines after the loop: overall success, final_result, the returned record
FinishPlan ==
    /\ ep_pc = "finish"
    /\ IF FinalResultRaises(steps)
       THEN /\ ep_pc' = "raised"          \* KeyError: 'result' leaves execute_plan
            /\ ep_result' = None
       ELSE /\ ep_pc' = "returned"
            /\ ep_result' = [success |-> OverallSuccess(steps, errors),
                             steps |-> steps,
                             final_result |-> steps[Len(steps)].step,
                             errors |-> errors]
    /\ UNCHANGED <<plan, fail_fast, ep_i, steps, errors, invoked, failed_at>>
    /\ UNCHANGED <<h_vars, g_vars, c_vars, k_vars, s_vars, l_vars, fc_vars, sm_vars, cs_vars, st_vars>>

\* ---------------------------------------------------------------------
\* LLMCommandCenter.handle
\* ---------------------------------------------------------------------

\* names the oracle may propose: one registered tool, one unknown name
HandleToolNames == {"run_command", "no_such_tool"}

\* keys of FunctionCaller.function_map
caller_function_map == {"run_command", "check_service", "start_service", "stop_service",
                        "restart_service", "get_system_info", "web_search", "fetch_url",
                        "change_directory", "get_current_directory", "read_file",
                        "write_file", "list_files"}

\* what a registered tool can do when called: return a record reporting
\* success, return a record reporting failure, or raise
ToolOutcomes == {"ok", "fail", "raise"}

\* the "arguments" string of a tool call: a JSON object or text that
\* json.loads rejects
ArgumentTexts == {"json", "garbage"}

\* a tool call handed to FunctionCaller: out is what the tool would do if
\* it were invoked
ToolCallRecord(name, arguments, out) == [name |-> name, arguments |-> arguments, out |-> out]

\* FunctionCaller.call_function: the result record for one tool call.
\* A missing name, an unknown name and unparseable arguments are failures
\* without any call; a call that returns is recorded with success true
\* whatever the returned record says; a call that raises is recorded with
\* success false.
call_function(tool_call) ==
    LET failure(error) == [name |-> tool_call.name, success |-> FALSE, called |-> FALSE,
                           tool_success |-> FALSE, error |-> error] IN
    IF tool_call.name = None THEN failure("Function name not provided")
    ELSE IF tool_call.name \notin caller_function_map
         THEN failure("Unknown function: " \o tool_call.name)
    ELSE IF tool_call.arguments = "garbage" THEN failure("Invalid JSON arguments")
    ELSE [name |-> tool_call.name, success |-> (tool_call.out # "raise"), called |-> TRUE,
          tool_success |-> (tool_call.out = "ok"),
          error |-> IF tool_call.out = "raise" THEN "exception" ELSE None]

\* call_functions that leaves out the calls it has no function for
call_functions_SkipUnknown(tool_calls) ==
    LET known == SelectSeq(tool_calls, LAMBDA tc : tc.name \in caller_function_map) IN
    [j \in 1..Len(known) |-> call_function(known[j])]

\* FunctionCaller.call_functions: one result per tool call, in call order
call_functions(tool_calls) ==
    [j \in 1..Len(tool_calls) |-> call_function(tool_calls[j])]

\* the tool message built for one function result
ToolMessage(r) ==
    [role |-> "tool", kind |-> IF r.success THEN "result" ELSE "error"]

NumCalled(rs) == Cardinality({j \in 1..Len(rs) : rs[j].called})

\* "while iterations < max_iterations"
LoopContinues_OffByOne(it, mx) == it <= mx

LoopContinues(it, mx) == it < mx

HandleInit ==
    /\ max_iterations \in 0..MaxIterations
    /\ iterations = 0
    /\ h_messages = <<[role |-> "system", kind |-> "prompt"],
                      [role |-> "user", kind |-> "request"]>>
    /\ h_tool_results = <<>>
    /\ h_pc = "loop"
    /\ h_response = None
    /\ oracle_calls = 0
    /\ oracle_failed = FALSE
    /\ calls_after_failure = 0

HandleIdle ==
    /\ max_iterations = 0
    /\ iterations = 0
    /\ h_messages = <<>>
    /\ h_tool_results = <<>>
    /\ h_pc = "done"
    /\ h_response = None
    /\ oracle_calls = 0
    /\ oracle_failed = FALSE
    /\ calls_after_failure = 0

\* one iteration in which chat_with_functions returns an error record
HandleOracleError ==
    /\ h_pc = "loop"
    /\ LoopContinues(iterations, max_iterations)
    /\ iterations' = iterations + 1
    /\ oracle_calls' = oracle_calls + 1
    /\ calls_after_failure' = calls_after_failure + (IF oracle_failed THEN 1 ELSE 0)
    /\ oracle_failed' = TRUE
    /\ h_pc' = "done"
    /\ h_response' = [success |-> FALSE, message |-> "LLM Error"]
    /\ UNCHANGED <<max_iterations, h_messages, h_tool_results>>
    /\ UNCHANGED <<ep_vars, g_vars, c_vars, k_vars, s_vars, l_vars, fc_vars, sm_vars, cs_vars, st_vars>>

\* what a tool called from handle does: it returns a record or it raises
\* (handle passes a returned record on to the oracle without reading it)
HandleOutcomes == {"ok", "raise"}

\* "content" of an oracle answer without tool calls: text or null
FinalContents == {"final answer", None}

\* response.get("content", "No response from LLM"): the key is always there
\* (llm_client.py:81), so the default is never used
FinalMessage(content) == content

\* one iteration in which the oracle answers without tool calls
HandleFinalAnswer ==
    /\ h_pc = "loop"
    /\ LoopContinues(iterations, max_iterations)
    /\ iterations' = iterations + 1
    /\ oracle_calls' = oracle_calls + 1
    /\ calls_after_failure' = calls_after_failure + (IF oracle_failed THEN 1 ELSE 0)
    /\ h_messages' = Append(h_messages, [role |-> "assistant", kind |-> "text"])
    /\ h_pc' = "done"
    /\ \E content \in FinalContents :
          h_response' = [success |-> TRUE, message |-> FinalMessage(content)]
    /\ UNCHANGED <<max_iterations, h_tool_results, oracle_failed>>
    /\ UNCHANGED <<ep_vars, g_vars, c_vars, k_vars, s_vars, l_vars, fc_vars, sm_vars, cs_vars, st_vars>>

\* one iteration in which the oracle proposes tool calls: they are executed
\* by call_functions and one tool message per call is appended
HandleToolCalls ==
    /\ h_pc = "loop"
    /\ LoopContinues(iterations, max_iterations)
    /\ \E n \in 1..MaxCalls :
       \E names \in [1..n -> HandleToolNames], outs \in [1..n -> HandleOutcomes] :
          LET results == call_functions([j \in 1..n |->
                             ToolCallRecord(names[j], "json", outs[j])]) IN
          /\ h_tool_results' = h_tool_results \o results
          /\ h_messages' = Append(h_messages, [role |-> "assistant", kind |-> "tool_calls"])
                           \o [j \in 1..n |-> ToolMessage(results[j])]
          /\ calls_after_failure' = calls_after_failure
                 + (IF oracle_failed THEN 1 + NumCalled(results) ELSE 0)
    /\ iterations' = iterations + 1
    /\ oracle_calls' = oracle_calls + 1
    /\ UNCHANGED <<max_iterations, h_pc, h_response, oracle_failed>>
    /\ UNCHANGED <<ep_vars, g_vars, c_vars, k_vars, s_vars, l_vars, fc_vars, sm_vars, cs_vars, st_vars>>

\* the loop condition fails: "Maximum iterations reached"
HandleMaxIterations ==
    /\ h_pc = "loop"
    /\ ~LoopContinues(iterations, max_iterations)
    /\ h_pc' = "done"
    /\ h_response' = [success |-> FALSE, message |-> "Maximum iterations reached"]
    /\ UNCHANGED <<max_iterations, iterations, h_messages, h_tool_results,
                   oracle_calls, oracle_failed, calls_after_failure>>
    /\ UNCHANGED <<ep_vars, g_vars, c_vars, k_vars, s_vars, l_vars, fc_vars, sm_vars, cs_vars, st_vars>>


\* ---------------------------------------------------------------------
\* Autonomous agent graph: strings
\* ---------------------------------------------------------------------

\* Python "p in s" for strings
Contains(s, p) == \E i \in 1..(Len(s) - Len(p) + 1) : SubSeq(s, i, i + Len(p) - 1) = p

\* any(pattern in s for pattern in patterns)
ContainsAny(s, patterns) == \E p \in patterns : Contains(s, p)

UpperToLower ==
    [c \in {"A", "B", "C", "D", "E", "F", "G", "H", "I", "J", "K", "L", "M",
            "N", "O", "P", "Q", "R", "S", "T", "U", "V", "W", "X", "Y", "Z"} |->
        CASE c = "A" -> "a" [] c = "B" -> "b" [] c = "C" -> "c" [] c = "D" -> "d"
          [] c = "E" -> "e" [] c = "F" -> "f" [] c = "G" -> "g" [] c = "H" -> "h"
          [] c = "I" -> "i" [] c = "J" -> "j" [] c = "K" -> "k" [] c = "L" -> "l"
          [] c = "M" -> "m" [] c = "N" -> "n" [] c = "O" -> "o" [] c = "P" -> "p"
          [] c = "Q" -> "q" [] c = "R" -> "r" [] c = "S" -> "s" [] c = "T" -> "t"
          [] c = "U" -> "u" [] c = "V" -> "v" [] c = "W" -> "w" [] c = "X" -> "x"
          [] c = "Y" -> "y" [] c = "Z" -> "z"]

RECURSIVE Lower(_)
\* str.lower()
Lower(s) ==
    IF Len(s) = 0 THEN s
    ELSE LET c == SubSeq(s, 1, 1) IN
         (IF c \in DOMAIN UpperToLower THEN UpperToLower[c] ELSE c)
            \o Lower(SubSeq(s, 2, Len(s)))

\* len(s.split()): number of whitespace-separated tokens
TokenCount(s) ==
    Cardinality({i \in 1..Len(s) :
        /\ SubSeq(s, i, i) # " "
        /\ (i = 1 \/ SubSeq(s, i - 1, i - 1) = " ")})

\* "not s or not s.strip()"
IsBlank(s) == \A i \in 1..Len(s) : SubSeq(s, i, i) = " "

\* ---------------------------------------------------------------------
\* Autonomous agent graph: state
\* ---------------------------------------------------------------------

\* request texts sent to /api/execute with autonomous = true
Requests == {"hello there",
             "Run command rm -rf /",
             "refactor the parser"}

\* values standing for Python's None in fields that otherwise hold a record,
\* an integer or a list
NoPlan == [present |-> FALSE, steps |-> <<>>]
NoStep == -1
NoVerification == [present |-> FALSE, files_created |-> <<>>, files_modified |-> <<>>,
                   files_exist |-> FALSE, errors |-> <<>>, warnings |-> <<>>]
NoSummary == <<>>

\* from_conversation_state(...) with messages = [HumanMessage(request)]
InitialState(request) ==
    [messages |-> <<[role |-> "human", content |-> request]>>,
     intent |-> None,
     mode |-> None,
     plan |-> NoPlan,
     current_step |-> NoStep,
     tool_calls |-> <<>>,
     tool_results |-> <<>>,
     modified_files |-> <<>>,
     created_files |-> <<>>,
     verification_results |-> NoVerification,
     errors |-> <<>>,
     requires_approval |-> FALSE,
     approval_status |-> None,
     approval_message |-> None,
     summary |-> NoSummary]

\* the loop "for msg in state.get('messages', [])" of ingress, router,
\* planner and chat_agent: content of the first message that is a user dict
\* or an object with a content attribute (every message of the model is one
\* or the other unless it is a dict of another role)
FirstUserMessage(s, default) ==
    LET idx == {i \in 1..Len(s.messages) :
                   s.messages[i].role \in {"user", "human", "tool_message"}} IN
    IF idx = {} THEN default
    ELSE s.messages[CHOOSE i \in idx : \A j \in idx : i <= j].content

\* ---------------------------------------------------------------------
\* Autonomous agent graph: ingress, router, planner
\* ---------------------------------------------------------------------

ingress_node(s) ==
    IF Len(s.messages) = 0
    THEN [s EXCEPT !.errors = Append(@, "No messages in request")]
    ELSE LET user_message == FirstUserMessage(s, None) IN
         IF user_message = None \/ IsBlank(user_message)
         THEN [s EXCEPT !.errors = Append(@, "Empty request")]
         ELSE s

code_keywords == {"file", "code", "function", "class", "import", "refactor",
                  "edit", "create", "modify", "add", "remove", "test", "bug",
                  "fix", "implement", "feature", "module", "package"}

web_keywords == {"search", "find", "lookup", "web", "internet", "url", "fetch",
                 "research", "information", "about"}

action_keywords == {"run", "execute", "command", "service", "system", "check",
                    "start", "stop", "restart", "status"}

complex_indicators == {"refactor", "migrate", "implement", "add authentication",
                       "add feature", "restructure", "redesign"}

\* "len(user_message.split()) > 10"
PlanningThreshold == 10

\* classification that tests the code keywords before the complex indicators
Classify_CodeFirst(user_message) ==
    LET user_lower == Lower(user_message) IN
    IF user_message = "" THEN [intent |-> "chat", mode |-> "simple"]
    ELSE IF ContainsAny(user_lower, code_keywords)
         THEN [intent |-> "code",
               mode |-> IF TokenCount(user_message) > PlanningThreshold
                        THEN "planning" ELSE "simple"]
    ELSE IF ContainsAny(user_lower, complex_indicators)
         THEN [intent |-> "complex", mode |-> "planning"]
    ELSE IF ContainsAny(user_lower, web_keywords)
         THEN [intent |-> "web", mode |-> "simple"]
    ELSE IF ContainsAny(user_lower, action_keywords)
         THEN [intent |-> "action", mode |-> "simple"]
    ELSE [intent |-> "chat", mode |-> "simple"]

\* the (intent, mode) pair computed by router_node for a user message
Classify(user_message) ==
    LET user_lower == Lower(user_message) IN
    IF user_message = "" THEN [intent |-> "chat", mode |-> "simple"]
    ELSE IF ContainsAny(user_lower, complex_indicators)
         THEN [intent |-> "complex", mode |-> "planning"]
    ELSE IF ContainsAny(user_lower, code_keywords)
         THEN [intent |-> "code",
               mode |-> IF TokenCount(user_message) > PlanningThreshold
                        THEN "planning" ELSE "simple"]
    ELSE IF ContainsAny(user_lower, web_keywords)
         THEN [intent |-> "web", mode |-> "simple"]
    ELSE IF ContainsAny(user_lower, action_keywords)
         THEN [intent |-> "action", mode |-> "simple"]
    ELSE [intent |-> "chat", mode |-> "simple"]

\* router_node that also empties the errors list
router_node_ClearsErrors(s) ==
    LET c == Classify(FirstUserMessage(s, "")) IN
    [s EXCEPT !.intent = c.intent, !.mode = c.mode, !.errors = <<>>]

router_node(s) ==
    LET c == Classify(FirstUserMessage(s, "")) IN
    [s EXCEPT !.intent = c.intent, !.mode = c.mode]

\* route_by_intent sending chat requests to the agent loop
route_by_intent_ChatToAgent(s) ==
    IF s.mode = "planning" THEN "planner" ELSE "agent"

route_by_intent(s) ==
    IF s.intent = "chat" THEN "chat_agent"
    ELSE IF s.mode = "planning" THEN "planner"
    ELSE "agent"

\* bound on the number of steps the planner extracts from the oracle's text
MaxPlanSteps == 1

PendingSteps(n) ==
    [j \in 1..n |-> [id |-> j, action |-> "extracted step", status |-> "pending"]]

\* the plan used when no step is extracted from the oracle's text
GenericPlan_Empty == <<>>

GenericPlan ==
    <<[id |-> 1, action |-> "Understand the task", status |-> "pending"],
      [id |-> 2, action |-> "Execute the task", status |-> "pending"],
      [id |-> 3, action |-> "Verify completion", status |-> "pending"]>>

\* the plan used when the planning oracle call raises
ErrorPlan == <<[id |-> 1, action |-> "Execute task", status |-> "pending"]>>

\* what the planner's oracle call can do: raise, or return a text from which
\* "extracted" steps are parsed
PlannerOracle ==
    {[raises |-> TRUE, extracted |-> 0]}
        \cup {[raises |-> FALSE, extracted |-> k] : k \in 0..MaxPlanSteps}

\* what the planner's oracle call did: "none" when planner_node returns
\* before calling it
PlannerCall(s, oracle) ==
    IF s.mode # "planning" \/ FirstUserMessage(s, "") = "" THEN "none"
    ELSE IF oracle.raises THEN "raised"
    ELSE IF oracle.extracted = 0 THEN "unparseable"
    ELSE "parsed"

\* planner_node, given what the oracle call did
planner_node(s, oracle) ==
    IF s.mode # "planning" \/ FirstUserMessage(s, "") = "" THEN s
    ELSE IF oracle.raises
    THEN [s EXCEPT !.plan = [present |-> TRUE, steps |-> ErrorPlan],
                   !.current_step = 0,
                   !.errors = Append(@, "Planning error")]
    ELSE [s EXCEPT !.plan = [present |-> TRUE,
                             steps |-> IF oracle.extracted = 0 THEN GenericPlan
                                       ELSE PendingSteps(oracle.extracted)],
                   !.current_step = 0]

\* ---------------------------------------------------------------------
\* Autonomous agent graph: agent and tool nodes
\* ---------------------------------------------------------------------

\* bound on the agent's oracle calls in one traversal
MaxTurns == 2

\* bound on the tool calls the oracle proposes in one traversal
MaxProposed == 2

\* bound on the tool calls the oracle proposes in one answer
MaxCallsPerTurn == 2

\* tool calls the oracle may propose (name and its one argument)
ToolCallSet ==
    {[name |-> "run_command", arg |-> "rm -rf /"],
     [name |-> "write_file", arg |-> "/etc/hosts"],
     [name |-> "web_search", arg |-> "nginx docs"]}

\* get_code_tools(), get_web_tools(), get_action_tools() by name
code_tool_names == {"read_file", "write_file", "list_files"}
web_tool_names == {"web_search", "fetch_url"}
action_tool_names == {"run_command", "check_service", "start_service", "stop_service",
                      "restart_service", "get_system_info", "change_directory",
                      "get_current_directory"}

\* agent_node when the oracle call (or get_llm_client) raises: the error is
\* recorded and every other field, tool_calls included, keeps its value
agent_node_raise(s) == [s EXCEPT !.errors = Append(@, "Agent error")]

\* the block moving current_step back instead of forward
CompleteStep_StepsBack(s) ==
    IF s.plan.present /\ s.current_step # NoStep /\ s.current_step < Len(s.plan.steps)
    THEN [s EXCEPT !.plan.steps[s.current_step + 1].status = "completed",
                   !.current_step = @ - 1]
    ELSE s

\* "if not tool_calls:" block of agent_node: the current plan step is completed
CompleteStep(s) ==
    IF s.plan.present /\ s.current_step # NoStep /\ s.current_step < Len(s.plan.steps)
    THEN [s EXCEPT !.plan.steps[s.current_step + 1].status = "completed",
                   !.current_step = @ + 1]
    ELSE s

\* agent_node completing the current step on every turn
agent_node_CompletesEveryTurn(s, tcs) ==
    IF s.messages = <<>> THEN s ELSE
    CompleteStep([s EXCEPT !.tool_calls = tcs,
                           !.messages = Append(@, [role |-> "assistant",
                                                   content |-> IF tcs = <<>> THEN "answer"
                                                               ELSE "tool_calls"])])

\* agent_node when the oracle answers with the tool calls tcs (<<>>: text only)
agent_node(s, tcs) ==
    IF s.messages = <<>> THEN s ELSE
    LET s1 == [s EXCEPT !.tool_calls = tcs,
                        !.messages = Append(@, [role |-> "assistant",
                                                content |-> IF tcs = <<>> THEN "answer"
                                                            ELSE "tool_calls"])] IN
    IF tcs = <<>> THEN CompleteStep(s1) ELSE s1

\* route_to_tools: the node that follows agent
route_to_tools_FirstIsAction(s) ==
    IF s.tool_calls = <<>> THEN "verify" ELSE "action_tools"

route_to_tools(s) ==
    IF s.tool_calls = <<>> THEN "verify"
    ELSE LET tool_name == s.tool_calls[1].name IN
         IF tool_name \in code_tool_names THEN "code_tools"
         ELSE IF tool_name \in web_tool_names THEN "web_tools"
         ELSE "action_tools"

\* indices of the calls in tool_calls whose name is in the node's tool
\* table ("if tool_name in action_tools"), in order; the others are skipped
RECURSIVE InvokedCalls(_, _, _)
InvokedCalls(tcs, tools, j) ==
    IF j > Len(tcs) THEN <<>>
    ELSE (IF tcs[j].name \in tools THEN <<j>> ELSE <<>>)
            \o InvokedCalls(tcs, tools, j + 1)

\* the tool_results entry and the ToolMessage of one invocation, given what
\* the tool did: "ok" / "fail" (a returned record and its success flag) or
\* "raise" (caught, turned into an error result and an "Error: ..." message)
ToolResult(tc, out) == [tool_name |-> tc.name, success |-> (out = "ok")]
ToolResultMessage(tc, out) ==
    [role |-> "tool_message", content |-> IF out = "raise" THEN "Error" ELSE "result"]

\* body of a tool node over its tool table, given the outcome of each invocation
ToolsNode(s, tools, outs) ==
    LET idx == InvokedCalls(s.tool_calls, tools, 1) IN
    IF s.tool_calls = <<>> THEN s
    ELSE [s EXCEPT
            !.tool_results = @ \o [k \in 1..Len(idx) |-> ToolResult(s.tool_calls[idx[k]], outs[k])],
            !.messages = @ \o [k \in 1..Len(idx) |-> ToolResultMessage(s.tool_calls[idx[k]], outs[k])]]

action_tools_node(s, outs) == ToolsNode(s, action_tool_names, outs)

\* the code and web tool nodes do the same over their own tool tables
code_tools_node(s, outs) == ToolsNode(s, code_tool_names, outs)
web_tools_node(s, outs) == ToolsNode(s, web_tool_names, outs)

\* tool table of a tool node
NodeTools(n) ==
    CASE n = "code_tools" -> code_tool_names
      [] n = "web_tools" -> web_tool_names
      [] n = "action_tools" -> action_tool_names

RunToolsNode(n, s, outs) ==
    CASE n = "code_tools" -> code_tools_node(s, outs)
      [] n = "web_tools" -> web_tools_node(s, outs)
      [] n = "action_tools" -> action_tools_node(s, outs)

\* ---------------------------------------------------------------------
\* Autonomous agent graph: verify, hil, summarize
\* ---------------------------------------------------------------------

dangerous_patterns == {"rm -rf", "delete", "drop", "remove", "uninstall",
                       "/etc/", "/usr/", "/var/", "system", "service"}

system_path_patterns == {"/etc/", "/usr/", "/var/", "system"}

\* tool names the "service operations" check of verify_node lists
approval_service_tools_WithStart == {"start_service", "stop_service", "restart_service"}

approval_service_tools == {"stop_service", "restart_service"}

\* does one tool call need approval
CallNeedsApproval(tc) ==
    \/ tc.name = "run_command" /\ ContainsAny(Lower(tc.arg), dangerous_patterns)
    \/ tc.name = "write_file" /\ ContainsAny(tc.arg, system_path_patterns)
    \/ tc.name \in approval_service_tools

\* the calls verify_node scans: state["tool_calls"]
ScannedCalls(s) == s.tool_calls

verify_node(s) ==
    LET failed == SelectSeq(s.tool_results, LAMBDA r : ~r.success)
        verification_results ==
            [present |-> TRUE,
             files_created |-> <<>>, files_modified |-> <<>>, files_exist |-> TRUE,
             errors |-> [k \in 1..Len(failed) |-> "Tool error"], warnings |-> <<>>]
        requires_approval ==
            \E j \in 1..Len(ScannedCalls(s)) : CallNeedsApproval(ScannedCalls(s)[j])
    IN [s EXCEPT !.verification_results = verification_results,
                 !.requires_approval = requires_approval,
                 !.approval_status = IF requires_approval THEN "pending" ELSE @,
                 !.approval_message = IF requires_approval THEN "approval needed" ELSE @]

check_approval_needed(s) ==
    IF s.requires_approval /\ s.approval_status = "pending" THEN "hil" ELSE "summarize"

\* hil_node calls interrupt(): the graph pauses and the node does not complete
hil_interrupts(s) == s.requires_approval /\ s.approval_status = "pending"

hil_node(s) ==
    IF ~s.requires_approval THEN s
    ELSE IF s.approval_status = "approved" THEN [s EXCEPT !.requires_approval = FALSE]
    ELSE IF s.approval_status = "rejected"
         THEN [s EXCEPT !.errors = Append(@, "Operation rejected by user"),
                        !.requires_approval = FALSE]
    ELSE s

check_approval_status(s) ==
    IF s.approval_status = "approved" THEN "summarize"
    ELSE IF s.approval_status = "rejected" THEN "summarize"
    ELSE "end"

\* "for error in errors[:5]"
MaxErrorsListed == 5

\* summary_parts of summarize_node
SummaryParts(s) ==
    LET ok == Len(SelectSeq(s.tool_results, LAMBDA r : r.success))
        done == IF ~s.plan.present THEN 0
                ELSE Len(SelectSeq(s.plan.steps, LAMBDA st : st.status = "completed"))
    IN (IF s.created_files # <<>> THEN <<[kind |-> "created", n |-> Len(s.created_files)]>> ELSE <<>>)
    \o (IF s.modified_files # <<>> THEN <<[kind |-> "modified", n |-> Len(s.modified_files)]>> ELSE <<>>)
    \o (IF Len(s.tool_results) > 0
        THEN <<[kind |-> "tools", n |-> ok, of |-> Len(s.tool_results)]>> ELSE <<>>)
    \o (IF s.errors # <<>>
        THEN <<[kind |-> "errors",
                listed |-> SubSeq(s.errors, 1, IF Len(s.errors) < MaxErrorsListed
                                               THEN Len(s.errors) ELSE MaxErrorsListed)]>>
        ELSE <<>>)
    \o (IF s.verification_results.present
        THEN (IF s.verification_results.files_exist THEN <<[kind |-> "verified"]>> ELSE <<>>)
          \o (IF s.verification_results.errors # <<>>
              THEN <<[kind |-> "verification_errors",
                      n |-> Len(s.verification_results.errors)]>> ELSE <<>>)
        ELSE <<>>)
    \o (IF s.plan.present
        THEN <<[kind |-> "plan", n |-> done, of |-> Len(s.plan.steps)]>> ELSE <<>>)

\* the summary without the fallback text
SummaryText_NoFallback(parts) == parts

\* '"\n".join(summary_parts) if summary_parts else "Task completed"'
SummaryText(parts) == IF parts = <<>> THEN <<[kind |-> "Task completed"]>> ELSE parts

summarize_node(s) ==
    [s EXCEPT !.summary = SummaryText(SummaryParts(s)),
              !.messages = Append(@, [role |-> "assistant", content |-> "summary"])]

\* ---------------------------------------------------------------------
\* Autonomous agent graph: the graph engine and the endpoints
\* ---------------------------------------------------------------------

ToolNodes == {"code_tools", "web_tools", "action_tools"}

\* nodes that consult neither the oracle nor a tool
PlainNodes == {"ingress", "router", "verify", "hil", "summarize"}

NodeFunction(n, s) ==
    CASE n = "ingress" -> ingress_node(s)
      [] n = "router" -> router_node(s)
      [] n = "verify" -> verify_node(s)
      [] n = "hil" -> hil_node(s)
      [] n = "summarize" -> summarize_node(s)

\* edges of create_autonomous_agent_graph: the node that follows n, given
\* the state n returned
NextNode(n, s) ==
    CASE n = "ingress" -> "router"
      [] n = "router" -> route_by_intent(s)
      [] n = "planner" -> "agent"
      [] n = "chat_agent" -> "end"
      [] n = "agent" -> route_to_tools(s)
      [] n \in ToolNodes -> "agent"
      [] n = "verify" -> check_approval_needed(s)
      [] n = "hil" -> check_approval_status(s)
      [] n = "summarize" -> "end"

Checkpoint(values, next) == [present |-> TRUE, values |-> values, next |-> next]

NoResponse == [present |-> FALSE, success |-> FALSE, message |-> <<>>, errors |-> <<>>]

GraphInit ==
    /\ state = InitialState("")
    /\ node = "idle"
    /\ checkpoint = [present |-> FALSE, values |-> InitialState(""), next |-> "end"]
    /\ response = NoResponse
    /\ ran = <<>>
    /\ executed = <<>>
    /\ proposed = <<>>
    /\ caller = "execute"
    /\ g_oracle_calls = 0
    /\ agent_turns = 0
    /\ g_agent_failed = FALSE
    /\ g_after_failure = 0
    /\ planner_call = "none"

\* POST /api/execute with autonomous = true: the graph is invoked on the
\* session's thread with a fresh initial state holding the request
Execute ==
    /\ node = "idle"
    /\ \E request \in Requests :
          /\ ~IsBlank(request)
          /\ state' = InitialState(request)
          /\ checkpoint' = Checkpoint(InitialState(request), "ingress")
    /\ node' = "ingress"
    /\ caller' = "execute"
    /\ response' = NoResponse
    /\ ran' = <<>>
    /\ executed' = <<>>
    /\ proposed' = <<>>
    /\ g_oracle_calls' = 0
    /\ agent_turns' = 0
    /\ g_agent_failed' = FALSE
    /\ g_after_failure' = 0
    /\ planner_call' = "none"
    /\ UNCHANGED <<ep_vars, h_vars, c_vars, k_vars, s_vars, l_vars, fc_vars, sm_vars, cs_vars, st_vars>>

\* message lists of an initial state given to the compiled graph directly:
\* none, an empty text, a text of spaces, and a request for the agent loop
InvokeMessages ==
    {<<>>,
     <<[role |-> "human", content |-> ""]>>,
     <<[role |-> "human", content |-> "   "]>>,
     <<[role |-> "human", content |-> "Run command rm -rf /"]>>}

\* compiled_graph.invoke(initial_state) called without the endpoint in front
Invoke ==
    /\ node = "idle"
    /\ \E messages \in InvokeMessages :
          LET s0 == [InitialState("") EXCEPT !.messages = messages] IN
          /\ state' = s0
          /\ checkpoint' = Checkpoint(s0, "ingress")
    /\ node' = "ingress"
    /\ caller' = "invoke"
    /\ response' = NoResponse
    /\ ran' = <<>>
    /\ executed' = <<>>
    /\ proposed' = <<>>
    /\ g_oracle_calls' = 0
    /\ agent_turns' = 0
    /\ g_agent_failed' = FALSE
    /\ g_after_failure' = 0
    /\ planner_call' = "none"
    /\ UNCHANGED <<ep_vars, h_vars, c_vars, k_vars, s_vars, l_vars, fc_vars, sm_vars, cs_vars, st_vars>>

\* one superstep on a node that needs no oracle and no tool; the state is
\* checkpointed with the node that follows.  hil_node on a pending approval
\* interrupts: the node does not complete and the thread stays at hil.
RunNode ==
    /\ node \in PlainNodes
    /\ IF node = "hil" /\ hil_interrupts(state)
       THEN /\ node' = "interrupted"
            /\ checkpoint' = Checkpoint(state, "hil")
            /\ UNCHANGED <<state, ran>>
       ELSE LET s1 == NodeFunction(node, state) IN
            /\ state' = s1
            /\ node' = NextNode(node, s1)
            /\ checkpoint' = Checkpoint(s1, NextNode(node, s1))
            /\ ran' = Append(ran, node)
    /\ UNCHANGED <<response, executed, proposed, caller, g_oracle_calls, agent_turns,
                   g_agent_failed, g_after_failure>>
    /\ UNCHANGED <<ep_vars, h_vars, c_vars, k_vars, s_vars, l_vars, fc_vars, sm_vars, cs_vars, st_vars, planner_call>>

\* planner_node with its oracle call
RunPlanner ==
    /\ node = "planner"
    /\ \E oracle \in PlannerOracle :
          LET s1 == planner_node(state, oracle) IN
          /\ state' = s1
          /\ node' = NextNode("planner", s1)
          /\ checkpoint' = Checkpoint(s1, NextNode("planner", s1))
          /\ planner_call' = PlannerCall(state, oracle)
    /\ ran' = Append(ran, "planner")
    /\ g_oracle_calls' = g_oracle_calls + 1
    /\ UNCHANGED <<response, executed, proposed, caller, agent_turns,
                   g_agent_failed, g_after_failure>>
    /\ UNCHANGED <<ep_vars, h_vars, c_vars, k_vars, s_vars, l_vars, fc_vars, sm_vars, cs_vars, st_vars>>

\* chat_agent_node: returns at once on an empty first user message, else
\* makes its oracle call, which answers or raises
RunChatAgent ==
    /\ node = "chat_agent"
    /\ \E raises \in BOOLEAN :
          LET s1 == IF FirstUserMessage(state, "") = "" THEN state
                    ELSE IF raises
                    THEN [state EXCEPT !.errors = Append(@, "Chat agent error")]
                    ELSE [state EXCEPT !.messages =
                            Append(@, [role |-> "assistant", content |-> "answer"])] IN
          /\ state' = s1
          /\ checkpoint' = Checkpoint(s1, "end")
    /\ node' = "end"
    /\ ran' = Append(ran, "chat_agent")
    /\ g_oracle_calls' = g_oracle_calls + (IF FirstUserMessage(state, "") = "" THEN 0 ELSE 1)
    /\ UNCHANGED <<response, executed, proposed, caller, agent_turns,
                   g_agent_failed, g_after_failure>>
    /\ UNCHANGED <<ep_vars, h_vars, c_vars, k_vars, s_vars, l_vars, fc_vars, sm_vars, cs_vars, st_vars, planner_call>>

\* agent_node whose oracle call raises
AgentRaises ==
    /\ node = "agent"
    /\ agent_turns < MaxTurns
    /\ LET s1 == agent_node_raise(state) IN
          /\ state' = s1
          /\ node' = NextNode("agent", s1)
          /\ checkpoint' = Checkpoint(s1, NextNode("agent", s1))
    /\ ran' = Append(ran, "agent")
    /\ g_oracle_calls' = g_oracle_calls + 1
    /\ agent_turns' = agent_turns + 1
    /\ g_after_failure' = g_after_failure + (IF g_agent_failed THEN 1 ELSE 0)
    /\ g_agent_failed' = TRUE
    /\ UNCHANGED <<response, executed, proposed, caller>>
    /\ UNCHANGED <<ep_vars, h_vars, c_vars, k_vars, s_vars, l_vars, fc_vars, sm_vars, cs_vars, st_vars, planner_call>>

\* agent_node whose oracle answers with text and no tool call
AgentAnswers ==
    /\ node = "agent"
    /\ agent_turns < MaxTurns
    /\ LET s1 == agent_node(state, <<>>) IN
          /\ state' = s1
          /\ node' = NextNode("agent", s1)
          /\ checkpoint' = Checkpoint(s1, NextNode("agent", s1))
    /\ ran' = Append(ran, "agent")
    /\ g_oracle_calls' = g_oracle_calls + 1
    /\ agent_turns' = agent_turns + 1
    /\ g_after_failure' = g_after_failure + (IF g_agent_failed THEN 1 ELSE 0)
    /\ UNCHANGED <<response, executed, proposed, caller, g_agent_failed>>
    /\ UNCHANGED <<ep_vars, h_vars, c_vars, k_vars, s_vars, l_vars, fc_vars, sm_vars, cs_vars, st_vars, planner_call>>

\* agent_node whose oracle proposes tool calls; each call has a fresh id
AgentProposes ==
    /\ node = "agent"
    /\ agent_turns < MaxTurns
    /\ Len(proposed) < MaxProposed
    /\ \E n \in 1..MaxCallsPerTurn :
          /\ Len(proposed) + n <= MaxProposed
          /\ \E calls \in [1..n -> ToolCallSet] :
                LET tcs == [j \in 1..n |-> [id |-> Len(proposed) + j,
                                            name |-> calls[j].name,
                                            arg |-> calls[j].arg]]
                    s1 == agent_node(state, tcs) IN
                /\ state' = s1
                /\ node' = NextNode("agent", s1)
                /\ checkpoint' = Checkpoint(s1, NextNode("agent", s1))
                /\ proposed' = proposed \o [j \in 1..n |->
                                   [id |-> tcs[j].id, name |-> tcs[j].name,
                                    arg |-> tcs[j].arg, turn |-> agent_turns + 1]]
    /\ ran' = Append(ran, "agent")
    /\ g_oracle_calls' = g_oracle_calls + 1
    /\ agent_turns' = agent_turns + 1
    /\ g_after_failure' = g_after_failure + (IF g_agent_failed THEN 1 ELSE 0)
    /\ UNCHANGED <<response, executed, caller, g_agent_failed>>
    /\ UNCHANGED <<ep_vars, h_vars, c_vars, k_vars, s_vars, l_vars, fc_vars, sm_vars, cs_vars, st_vars, planner_call>>

\* a tool node: every call of tool_calls that the node owns is invoked once
RunTools ==
    /\ node \in ToolNodes
    /\ LET idx == InvokedCalls(state.tool_calls, NodeTools(node), 1) IN
       \E outs \in [1..Len(idx) -> ToolOutcomes] :
          LET s1 == RunToolsNode(node, state, outs) IN
          /\ state' = s1
          /\ node' = NextNode(node, s1)
          /\ checkpoint' = Checkpoint(s1, NextNode(node, s1))
          /\ executed' = executed \o [k \in 1..Len(idx) |->
                             [id |-> state.tool_calls[idx[k]].id,
                              name |-> state.tool_calls[idx[k]].name,
                              arg |-> state.tool_calls[idx[k]].arg,
                              turn |-> agent_turns]]
          /\ g_after_failure' = g_after_failure + (IF g_agent_failed THEN Len(idx) ELSE 0)
    /\ ran' = Append(ran, node)
    /\ UNCHANGED <<response, proposed, caller, g_oracle_calls, agent_turns, g_agent_failed>>
    /\ UNCHANGED <<ep_vars, h_vars, c_vars, k_vars, s_vars, l_vars, fc_vars, sm_vars, cs_vars, st_vars, planner_call>>

\* the message of the response: the summary, else the content of the last
\* message, else "Task completed"
ResponseMessage(s) ==
    IF s.summary # NoSummary THEN s.summary
    ELSE IF Len(s.messages) > 0
         THEN <<[kind |-> "text", content |-> s.messages[Len(s.messages)].content]>>
    ELSE <<[kind |-> "Task completed"]>>

\* ExecuteResponse built from the state the graph returned
BuildResponse(s) ==
    [present |-> TRUE,
     success |-> (Len(s.errors) = 0),
     message |-> ResponseMessage(s),
     errors |-> s.errors]

\* compiled_graph.invoke returns (at END or at an interrupt) and the endpoint
\* that called it builds its response
Respond ==
    /\ node \in {"end", "interrupted"}
    /\ node' = "idle"
    /\ response' = IF caller = "execute" THEN BuildResponse(state) ELSE response
    /\ UNCHANGED <<state, checkpoint, ran, executed, proposed, caller, g_oracle_calls,
                   agent_turns, g_agent_failed, g_after_failure>>
    /\ UNCHANGED <<ep_vars, h_vars, c_vars, k_vars, s_vars, l_vars, fc_vars, sm_vars, cs_vars, st_vars, planner_call>>

\* the values approve_operation writes back with update_state
ApprovedValues(values, approved) ==
    [values EXCEPT !.approval_status = IF approved THEN "approved" ELSE "rejected",
                   !.requires_approval = FALSE]

\* POST /api/approve: the thread's state is loaded, the decision is written,
\* and only an approval resumes the graph, at the node the checkpoint names
Approve ==
    /\ node = "idle"
    /\ checkpoint.present
    /\ \E approved \in BOOLEAN :
          LET values == ApprovedValues(checkpoint.values, approved) IN
          /\ checkpoint' = [checkpoint EXCEPT !.values = values]
          /\ state' = values
          /\ IF approved /\ checkpoint.next # "end"
             THEN node' = checkpoint.next /\ caller' = "approve"
             ELSE UNCHANGED <<node, caller>>
    /\ UNCHANGED <<response, ran, executed, proposed, g_oracle_calls, agent_turns,
                   g_agent_failed, g_after_failure>>
    /\ UNCHANGED <<ep_vars, h_vars, c_vars, k_vars, s_vars, l_vars, fc_vars, sm_vars, cs_vars, st_vars, planner_call>>

\* ---------------------------------------------------------------------
\* Command center: RequestParser
\* ---------------------------------------------------------------------

\* characters matched by \w (the request is lower-cased before matching)
WordChars == {"a", "b", "c", "d", "e", "f", "g", "h", "i", "j", "k", "l", "m",
              "n", "o", "p", "q", "r", "s", "t", "u", "v", "w", "x", "y", "z",
              "0", "1", "2", "3", "4", "5", "6", "7", "8", "9", "_"}

\* characters matched by \s
SpaceChars == {" "}

RECURSIVE Strip(_)
\* str.strip()
Strip(s) ==
    IF Len(s) = 0 THEN s
    ELSE IF SubSeq(s, 1, 1) \in SpaceChars THEN Strip(SubSeq(s, 2, Len(s)))
    ELSE IF SubSeq(s, Len(s), Len(s)) \in SpaceChars THEN Strip(SubSeq(s, 1, Len(s) - 1))
    ELSE s

RECURSIVE RunLength(_, _, _)
\* number of consecutive characters of the set chars in s from position pos
RunLength(s, pos, chars) ==
    IF pos > Len(s) \/ SubSeq(s, pos, pos) \notin chars THEN 0
    ELSE 1 + RunLength(s, pos + 1, chars)

\* pattern elements: a literal word, \s+, the group (\w+), the group (.+)
Lit(v) == [t |-> "lit", v |-> v]
Ws == [t |-> "ws", v |-> ""]
Word == [t |-> "word", v |-> ""]
Rest == [t |-> "rest", v |-> ""]

NoMatch == [ok |-> FALSE, group |-> ""]

RECURSIVE MatchFrom(_, _, _, _, _)
\* the match of the pattern elements toks[k..] against s at position pos;
\* group is the text of the pattern's one group
MatchFrom(s, pos, toks, k, group) ==
    IF k > Len(toks) THEN [ok |-> TRUE, group |-> group]
    ELSE LET tok == toks[k] IN
         CASE tok.t = "lit" ->
                IF pos + Len(tok.v) - 1 <= Len(s) /\ SubSeq(s, pos, pos + Len(tok.v) - 1) = tok.v
                THEN MatchFrom(s, pos + Len(tok.v), toks, k + 1, group)
                ELSE NoMatch
           [] tok.t = "ws" ->
                LET n == RunLength(s, pos, SpaceChars) IN
                IF n >= 1 THEN MatchFrom(s, pos + n, toks, k + 1, group) ELSE NoMatch
           [] tok.t = "word" ->
                LET n == RunLength(s, pos, WordChars) IN
                IF n >= 1
                THEN MatchFrom(s, pos + n, toks, k + 1, SubSeq(s, pos, pos + n - 1))
                ELSE NoMatch
           [] tok.t = "rest" ->
                IF pos <= Len(s)
                THEN MatchFrom(s, Len(s) + 1, toks, k + 1, SubSeq(s, pos, Len(s)))
                ELSE NoMatch

\* re.search(pattern, s): the match at the leftmost position that has one
Search(s, toks) ==
    LET starts == {i \in 1..Len(s) : MatchFrom(s, i, toks, 1, "").ok} IN
    IF starts = {} THEN NoMatch
    ELSE MatchFrom(s, CHOOSE i \in starts : \A j \in starts : i <= j, toks, 1, "")

\* self.patterns, in order
patterns ==
    <<[re |-> <<Lit("restart"), Ws, Word>>, action |-> "restart_service"],
      [re |-> <<Lit("reboot"), Ws, Word>>, action |-> "restart_service"],
      [re |-> <<Lit("reload"), Ws, Word>>, action |-> "restart_service"],
      [re |-> <<Lit("start"), Ws, Word>>, action |-> "start_service"],
      [re |-> <<Lit("start"), Ws, Lit("the"), Ws, Word>>, action |-> "start_service"],
      [re |-> <<Lit("stop"), Ws, Word>>, action |-> "stop_service"],
      [re |-> <<Lit("stop"), Ws, Lit("the"), Ws, Word>>, action |-> "stop_service"],
      [re |-> <<Lit("check"), Ws, Word>>, action |-> "check_service"],
      [re |-> <<Lit("status"), Ws, Lit("of"), Ws, Word>>, action |-> "check_service"],
      [re |-> <<Lit("status"), Ws, Word>>, action |-> "check_service"],
      [re |-> <<Lit("is"), Ws, Word, Ws, Lit("running")>>, action |-> "check_service"],
      [re |-> <<Word, Ws, Lit("status")>>, action |-> "check_service"],
      [re |-> <<Lit("run"), Ws, Lit("command"), Ws, Rest>>, action |-> "run_command"],
      [re |-> <<Lit("execute"), Ws, Rest>>, action |-> "run_command"],
      [re |-> <<Lit("run"), Ws, Rest>>, action |-> "run_command"],
      [re |-> <<Lit("list"), Ws, Lit("services")>>, action |-> "list_services"],
      [re |-> <<Lit("show"), Ws, Lit("services")>>, action |-> "list_services"],
      [re |-> <<Lit("what"), Ws, Lit("services"), Ws, Lit("are"), Ws, Lit("running")>>,
       action |-> "list_services"]>>

\* the target of a parsed intent that has none (Python's None)
NoTarget == "None"

\* RequestParser.parse: the first pattern that matches decides the intent
parse(request) ==
    LET req == Lower(Strip(request))
        hits == {k \in 1..Len(patterns) : Search(req, patterns[k].re).ok} IN
    IF hits = {} THEN [action |-> "unknown", target |-> NoTarget]
    ELSE LET k == CHOOSE i \in hits : \A j \in hits : i <= j
             m == Search(req, patterns[k].re) IN
         [action |-> patterns[k].action,
          target |-> IF patterns[k].action = "list_services" THEN NoTarget
                     ELSE IF patterns[k].action = "run_command" THEN Strip(m.group)
                     ELSE m.group]

\* ---------------------------------------------------------------------
\* Command center: ActionRouter
\* ---------------------------------------------------------------------

PlanStep(step, function, args) == [step |-> step, function |-> function, args |-> args]

\* self.action_plans as built by ActionRouter.__init__
InitialActionPlans ==
    [a \in {"restart_service", "start_service", "stop_service", "check_service",
            "run_command", "list_services"} |->
        CASE a = "restart_service" ->
                <<PlanStep("check", "check_service", <<"target">>),
                  PlanStep("stop", "stop_service", <<"target">>),
                  PlanStep("start", "start_service", <<"target">>),
                  PlanStep("verify", "check_service", <<"target">>)>>
          [] a = "start_service" ->
                <<PlanStep("check", "check_service", <<"target">>),
                  PlanStep("start", "start_service", <<"target">>),
                  PlanStep("verify", "check_service", <<"target">>)>>
          [] a = "stop_service" ->
                <<PlanStep("check", "check_service", <<"target">>),
                  PlanStep("stop", "stop_service", <<"target">>),
                  PlanStep("verify", "check_service", <<"target">>)>>
          [] a = "check_service" ->
                <<PlanStep("check", "check_service", <<"target">>)>>
          [] a = "run_command" ->
                <<PlanStep("execute", "run_command", <<"target">>)>>
          [] a = "list_services" ->
                <<PlanStep("list", "list_services", <<>>)>>]

\* "[target if arg == 'target' else arg for arg in step['args']]"
SubstituteArgs(args, target) ==
    [j \in 1..Len(args) |-> IF args[j] = "target" THEN target ELSE args[j]]

\* the step list ActionRouter.route returns
route(plans, parsed_intent) ==
    IF parsed_intent.action = "unknown" THEN <<>>
    ELSE LET base_plan == IF parsed_intent.action \in DOMAIN plans
                          THEN plans[parsed_intent.action] ELSE <<>> IN
         [j \in 1..Len(base_plan) |->
             [base_plan[j] EXCEPT !.args = SubstituteArgs(@, parsed_intent.target)]]

\* self.action_plans after a route call: each step is copied (step.copy())
\* and the copy gets a new args list, so the stored templates keep theirs
PlansAfterRoute_InPlace(plans, parsed_intent) ==
    IF parsed_intent.action \in DOMAIN plans
    THEN [plans EXCEPT ![parsed_intent.action] = route(plans, parsed_intent)]
    ELSE plans

PlansAfterRoute(plans, parsed_intent) == plans

\* ---------------------------------------------------------------------
\* Command center: ServiceManager and CommandExecutor as the plan's functions
\* ---------------------------------------------------------------------

\* platform.system() of the host
Systems == {"Linux", "Darwin", "Other"}

\* what "systemctl is-active" prints for a running and for a stopped service
IsActiveOutputs(running) == IF running THEN {"active"} ELSE {"inactive", "failed"}

\* ServiceManager.check_service: is_running as computed on each platform;
\* the returned record has no "success" key
check_service(sys, running, output) ==
    [has_success |-> FALSE, success |-> FALSE,
     is_running |-> IF sys = "Linux" THEN Contains(Lower(output), "active") ELSE running]

\* ServiceManager.start_service / stop_service: success = (return_code == 0)
service_action(return_code) ==
    [has_success |-> TRUE, success |-> (return_code = 0), is_running |-> FALSE]

\* CommandExecutor.run: success = returncode == 0 or (returncode != 0 and output)
executor_run(return_code, has_output) ==
    [has_success |-> TRUE, success |-> (return_code = 0 \/ has_output), is_running |-> FALSE]

\* ActionOrchestrator._list_services: success is always True
list_services_result == [has_success |-> TRUE, success |-> TRUE, is_running |-> FALSE]

\* "result.get('success', False)" of execute_plan: a result without the key
\* counts as failed
StepSuccess_MissingIsSuccess(result) == IF result.has_success THEN result.success ELSE TRUE

StepSuccess(result) == IF result.has_success THEN result.success ELSE FALSE

\* ---------------------------------------------------------------------
\* Command center: CommandCenter.handle
\* ---------------------------------------------------------------------

\* bound on the direct route calls made on one ActionRouter
MaxRouteCalls == 2

\* request texts passed to CommandCenter.handle
CenterRequests == {"restart nginx", "start nginx", "stop nginx", "check nginx",
                   "run whoami", "list services", "do something weird and crazy"}

\* intents passed to ActionRouter.route directly: every registered action
\* type, the parser's "unknown", and a type without a template
RouteIntents ==
    [action : DOMAIN InitialActionPlans \cup {"unknown", "deploy_service"},
     target : {"nginx", "redis"}]

NoIntent == [action |-> "None", target |-> NoTarget]

NoCenterResponse == [present |-> FALSE, success |-> FALSE, message |-> ""]

\* the record handle returns
CenterResponse(success, message) ==
    [present |-> TRUE, success |-> success, message |-> message]

\* the record handle returns for an unknown action
UnknownActionResponse_Success == CenterResponse(TRUE, "unknown action")

UnknownActionResponse == CenterResponse(FALSE, "unknown action")

\* the record handle returns when the router has no plan
NoPlanResponse == CenterResponse(FALSE, "No action plan found")

\* a CommandCenter that has handled nothing yet, on one host
CenterStart ==
    /\ c_request = ""
    /\ c_pc = "done"
    /\ c_intent = NoIntent
    /\ c_plan = <<>>
    /\ c_i = 1
    /\ c_steps = <<>>
    /\ c_errors = <<>>
    /\ c_response = NoCenterResponse
    /\ c_invoked = <<>>
    /\ cmd_failed = FALSE
    /\ action_plans = InitialActionPlans
    /\ r_calls = <<>>
    /\ r_plan = <<>>

CenterInit ==
    /\ CenterStart
    /\ system \in Systems
    /\ svc_running \in BOOLEAN
    /\ svc_initial = svc_running

CenterIdle ==
    /\ CenterStart
    /\ system = "Linux"
    /\ svc_running = FALSE
    /\ svc_initial = FALSE

\* handle(request) is called
CenterHandle ==
    /\ c_pc \in {"done", "raised"}
    /\ c_request' \in CenterRequests
    /\ c_pc' = "parse"
    /\ c_intent' = NoIntent
    /\ c_plan' = <<>>
    /\ c_i' = 1
    /\ c_steps' = <<>>
    /\ c_errors' = <<>>
    /\ c_response' = NoCenterResponse
    /\ c_invoked' = <<>>
    /\ svc_initial' = svc_running
    /\ cmd_failed' = FALSE
    /\ UNCHANGED <<system, svc_running, action_plans, r_calls, r_plan>>
    /\ UNCHANGED <<ep_vars, h_vars, g_vars, k_vars, s_vars, l_vars, fc_vars, sm_vars, cs_vars, st_vars>>

\* "parsed_intent = self.parser.parse(request)" and the unknown-action return
CenterParse ==
    /\ c_pc = "parse"
    /\ c_intent' = parse(c_request)
    /\ IF parse(c_request).action = "unknown"
       THEN /\ c_pc' = "done"
            /\ c_response' = UnknownActionResponse
       ELSE /\ c_pc' = "route"
            /\ UNCHANGED c_response
    /\ UNCHANGED <<c_request, c_plan, c_i, c_steps, c_errors, c_invoked, system,
                   svc_running, svc_initial, cmd_failed, action_plans, r_calls, r_plan>>
    /\ UNCHANGED <<ep_vars, h_vars, g_vars, k_vars, s_vars, l_vars, fc_vars, sm_vars, cs_vars, st_vars>>

\* "plan = self.router.route(parsed_intent)" and the no-plan return
CenterRoute ==
    /\ c_pc = "route"
    /\ c_plan' = route(action_plans, c_intent)
    /\ action_plans' = PlansAfterRoute(action_plans, c_intent)
    /\ IF route(action_plans, c_intent) = <<>>
       THEN /\ c_pc' = "done"
            /\ c_response' = NoPlanResponse
       ELSE /\ c_pc' = "execute"
            /\ UNCHANGED c_response
    /\ UNCHANGED <<c_request, c_intent, c_i, c_steps, c_errors, c_invoked, system,
                   svc_running, svc_initial, cmd_failed, r_calls, r_plan>>
    /\ UNCHANGED <<ep_vars, h_vars, g_vars, k_vars, s_vars, l_vars, fc_vars, sm_vars, cs_vars, st_vars>>

\* the functions the templates name (no template names restart_service)
TemplateFunctions == {"check_service", "start_service", "stop_service",
                      "run_command", "list_services"}

\* one iteration of execute_plan's loop inside handle (fail_fast = True); the
\* step's function runs against the host: a command exits with return_code,
\* with or without output, and "systemctl is-active" prints output
CenterExecuteStep ==
    /\ c_pc = "execute"
    /\ c_i <= Len(c_plan)
    /\ LET fn == c_plan[c_i].function IN
       IF fn \notin function_map
       THEN /\ c_errors' = Append(c_errors, "Unknown function")
            /\ c_steps' = Append(c_steps, StepEntry(c_i, fn, FALSE, FALSE))
            /\ c_pc' = IF BreakOnFailure(TRUE, TRUE) \/ c_i = Len(c_plan)
                       THEN "finish" ELSE "execute"
            /\ UNCHANGED <<c_invoked, svc_running, cmd_failed>>
       ELSE /\ fn \in TemplateFunctions
            /\ \E return_code \in {0, 1}, has_output \in BOOLEAN,
                  output \in IsActiveOutputs(svc_running) :
                LET result ==
                      CASE fn = "check_service" -> check_service(system, svc_running, output)
                        [] fn \in {"start_service", "stop_service"} -> service_action(return_code)
                        [] fn = "run_command" -> executor_run(return_code, has_output)
                        [] fn = "list_services" -> list_services_result
                    success == StepSuccess(result) IN
                /\ c_steps' = Append(c_steps, StepEntry(c_i, fn, success, TRUE))
                /\ c_errors' = IF success THEN c_errors
                               ELSE Append(c_errors, c_plan[c_i].step)
                /\ c_pc' = IF BreakOnFailure(~success, TRUE) \/ c_i = Len(c_plan)
                           THEN "finish" ELSE "execute"
                /\ svc_running' =
                      IF fn = "start_service" /\ return_code = 0 THEN TRUE
                      ELSE IF fn = "stop_service" /\ return_code = 0 THEN FALSE
                      ELSE svc_running
                /\ cmd_failed' = (cmd_failed \/ (fn # "check_service" /\ return_code # 0))
            /\ c_invoked' = Append(c_invoked, fn)
    /\ c_i' = c_i + 1
    /\ UNCHANGED <<c_request, c_intent, c_plan, c_response, system, svc_initial,
                   action_plans, r_calls, r_plan>>
    /\ UNCHANGED <<ep_vars, h_vars, g_vars, k_vars, s_vars, l_vars, fc_vars, sm_vars, cs_vars, st_vars>>

\* the end of execute_plan and the record handle builds from its result
CenterFinish ==
    /\ c_pc = "finish"
    /\ IF FinalResultRaises(c_steps)
       THEN /\ c_pc' = "raised"
            /\ UNCHANGED c_response
       ELSE /\ c_pc' = "done"
            /\ c_response' = CenterResponse(OverallSuccess(c_steps, c_errors),
                                            IF OverallSuccess(c_steps, c_errors)
                                            THEN "formatted result" ELSE "Error")
    /\ UNCHANGED <<c_request, c_intent, c_plan, c_i, c_steps, c_errors, c_invoked,
                   system, svc_running, svc_initial, cmd_failed, action_plans,
                   r_calls, r_plan>>
    /\ UNCHANGED <<ep_vars, h_vars, g_vars, k_vars, s_vars, l_vars, fc_vars, sm_vars, cs_vars, st_vars>>

\* ActionRouter.route called directly with any intent
RouteCall ==
    /\ Len(r_calls) < MaxRouteCalls
    /\ \E parsed_intent \in RouteIntents :
          /\ r_plan' = route(action_plans, parsed_intent)
          /\ action_plans' = PlansAfterRoute(action_plans, parsed_intent)
          /\ r_calls' = Append(r_calls, parsed_intent)
    /\ UNCHANGED <<c_request, c_pc, c_intent, c_plan, c_i, c_steps, c_errors, c_response,
                   c_invoked, system, svc_running, svc_initial, cmd_failed>>
    /\ UNCHANGED <<ep_vars, h_vars, g_vars, k_vars, s_vars, l_vars, fc_vars, sm_vars, cs_vars, st_vars>>

\* ---------------------------------------------------------------------
\* Specifications
\* ---------------------------------------------------------------------

\* ---------------------------------------------------------------------
\* router_node called on its own
\* ---------------------------------------------------------------------

\* first user messages given to router_node
ClassifyMessages ==
    {"",
     "   ",
     "hello there",
     "Refactor the parser",
     "migrate and search the web then restart the service",
     "IMPLEMENT a file search and run it",
     "fix the bug",
     "a b c d e f g h i fix",
     "a b c d e f g h i j fix",
     "fix the bug in the login code and add a test for it so that we can ship",
     "search the file on the web and run it",
     "what is my address",
     "Search for nginx docs and restart",
     "restart nginx",
     "What is the STATUS"}

\* the states router_node is given: the state of a fresh request, with the
\* other fields varied (an error recorded by ingress, a classification left
\* from an earlier pass, an assistant message after the user's)
ClassifyStates(message) ==
    {[InitialState(message) EXCEPT
         !.messages = @ \o extra,
         !.errors = errs,
         !.intent = old.intent,
         !.mode = old.mode] :
       extra \in {<<>>, <<[role |-> "assistant", content |-> "restart nginx"]>>},
       errs \in {<<>>, <<"Empty request">>},
       old \in {[intent |-> None, mode |-> None],
                [intent |-> "web", mode |-> "execution"]}}

ClassifyIdle ==
    /\ k_pc = "idle"
    /\ k_state = InitialState("")
    /\ k_other = InitialState("")
    /\ k_out = InitialState("")
    /\ k_other_out = InitialState("")

ClassifyInit ==
    /\ k_pc = "input"
    /\ \E message \in ClassifyMessages :
          /\ k_state \in ClassifyStates(message)
          /\ k_other \in ClassifyStates(message)
    /\ k_out = k_state
    /\ k_other_out = k_other

\* router_node runs once on each of the two states
ClassifyRun ==
    /\ k_pc = "input"
    /\ k_pc' = "done"
    /\ k_out' = router_node(k_state)
    /\ k_other_out' = router_node(k_other)
    /\ UNCHANGED <<k_state, k_other>>
    /\ UNCHANGED <<ep_vars, h_vars, g_vars, c_vars, s_vars, l_vars, fc_vars, sm_vars, cs_vars, st_vars>>

\* ---------------------------------------------------------------------
\* api.py: session registry; the executors behind the tools
\* ---------------------------------------------------------------------

\* sessions created in one run of the model
MaxSessions == 2

\* values uuid.uuid4() can return
Uuids == {"u1", "u2", "u3", "u4"}

\* values of the session_id cookie: absent, empty, not a session, or a uuid
Cookies == {None, ""} \cup Uuids

\* os.getcwd() of the server process
ProcessCwd == "/srv/app"

\* directories that exist on the host
ExistingDirs == {"/srv/app", "/tmp"}

\* path arguments of change_directory (absolute)
CdPaths == {"/tmp", "/nope"}

Modes == {"llm", "agentic"}

\* a CommandExecutor with its StateManager; last_cd is history: the target
\* of the latest successful change_directory ("" when there was none)
NoExecutor == [present |-> FALSE, current_directory |-> "", last_cd |-> ""]
NewExecutor == [present |-> TRUE, current_directory |-> ProcessCwd, last_cd |-> ""]

\* the dict stored for a new session; "v3" holds the executor whose methods
\* FunctionCaller.__init__ bound into function_map
NewSessionData(session_id) ==
    [v3 |-> NoExecutor,
     state_manager |-> [session_id |-> session_id, current_directory |-> ProcessCwd],
     conversation_state |-> [session_id |-> session_id]]

\* "not session_id or session_id not in _sessions", always true
NeedsNewSession_Always(session_id, registry) == TRUE

\* "not session_id or session_id not in _sessions"
NeedsNewSession(session_id, registry) ==
    session_id = None \/ session_id = "" \/ session_id \notin DOMAIN registry

\* get_or_create_session, with uuid the value uuid.uuid4() returns
get_or_create_session(registry, session_id, uuid) ==
    IF NeedsNewSession(session_id, registry)
    THEN [session_id |-> uuid,
          registry |-> [x \in DOMAIN registry \cup {uuid} |->
                           IF x = uuid THEN NewSessionData(uuid) ELSE registry[x]]]
    ELSE [session_id |-> session_id, registry |-> registry]

\* StateManager.change_directory for an absolute path
state_manager_change_directory(current_directory, path) ==
    IF path \in ExistingDirs
    THEN [success |-> TRUE, directory |-> path]
    ELSE [success |-> FALSE, directory |-> current_directory]

\* CommandExecutor.change_directory
executor_change_directory(executor, path) ==
    LET result == state_manager_change_directory(executor.current_directory, path) IN
    [executor EXCEPT !.current_directory = result.directory,
                     !.last_cd = IF result.success THEN path ELSE @]

\* the cwd subprocess.run is given by CommandExecutor.run(command): the cwd
\* argument, None, so the child runs in the server's directory
SubprocessCwd(executor) == ProcessCwd

\* _get_executor(): the registry's executor
registry_executor(registry, texec, sid) ==
    IF texec.present THEN texec ELSE NewExecutor

\* the executor a tool call of session sid reaches: in LLM mode the one of
\* the session's LLMCommandCenter, in agentic mode the tool registry's
ExecutorOf(registry, texec, sid, mode) ==
    IF mode = "llm"
    THEN IF registry[sid].v3.present THEN registry[sid].v3 ELSE NewExecutor
    ELSE registry_executor(registry, texec, sid)

\* what get_current_directory answers for session sid
ObservedDirectory(registry, texec, sid, mode) ==
    ExecutorOf(registry, texec, sid, mode).current_directory

NoCall ==
    [op |-> "none", cookie |-> None, sid |-> None, mode |-> None, path |-> None,
     before |-> <<>>, ran_in |-> None, last_cd |-> None]

SessionIdle ==
    /\ sessions = <<>>
    /\ tool_executor = NoExecutor
    /\ api_call = NoCall

SessionInit == SessionIdle

\* a request arrives with some cookie and its session is looked up
SessionGetOrCreate ==
    \E cookie \in Cookies, uuid \in Uuids \ DOMAIN sessions :
        LET r == get_or_create_session(sessions, cookie, uuid) IN
        /\ Cardinality(DOMAIN r.registry) <= MaxSessions
        /\ sessions' = r.registry
        /\ api_call' = [NoCall EXCEPT !.op = "get_or_create", !.cookie = cookie,
                                      !.sid = r.session_id, !.before = sessions]
        /\ UNCHANGED tool_executor
        /\ UNCHANGED <<ep_vars, h_vars, g_vars, c_vars, k_vars, l_vars, fc_vars, sm_vars, cs_vars, st_vars>>

\* where the executor of a tool call is kept after the call
StoreExecutor(registry, texec, sid, mode, executor) ==
    IF mode = "llm"
    THEN [registry |-> [registry EXCEPT ![sid].v3 = executor], texec |-> texec]
    ELSE [registry |-> registry, texec |-> executor]

\* the oracle of a request of session sid calls change_directory(path)
SessionChangeDirectory ==
    \E sid \in DOMAIN sessions, mode \in Modes, path \in CdPaths :
        LET executor == ExecutorOf(sessions, tool_executor, sid, mode)
            stored == StoreExecutor(sessions, tool_executor, sid, mode,
                                    executor_change_directory(executor, path))
        IN /\ sessions' = stored.registry
           /\ tool_executor' = stored.texec
           /\ api_call' = [NoCall EXCEPT !.op = "change_directory", !.sid = sid,
                                         !.mode = mode, !.path = path]
           /\ UNCHANGED <<ep_vars, h_vars, g_vars, c_vars, k_vars, l_vars, fc_vars, sm_vars, cs_vars, st_vars>>

\* the oracle of a request of session sid calls run_command(command)
SessionRunCommand ==
    \E sid \in DOMAIN sessions, mode \in Modes :
        LET executor == ExecutorOf(sessions, tool_executor, sid, mode)
            stored == StoreExecutor(sessions, tool_executor, sid, mode, executor)
        IN /\ sessions' = stored.registry
           /\ tool_executor' = stored.texec
           /\ api_call' = [NoCall EXCEPT !.op = "run_command", !.sid = sid,
                                         !.mode = mode,
                                         !.ran_in = SubprocessCwd(executor),
                                         !.last_cd = executor.last_cd]
           /\ UNCHANGED <<ep_vars, h_vars, g_vars, c_vars, k_vars, l_vars, fc_vars, sm_vars, cs_vars, st_vars>>

\* ---------------------------------------------------------------------
\* api.py: the execute and approve handlers on the server's event loop
\* ---------------------------------------------------------------------

\* requests received in one run of the model
MaxRequests == 3

\* session ids carried by the requests
LoopSessions == {"u1", "u2"}

\* POST /api/execute with autonomous = true, POST /api/approve
LoopKinds == {"execute", "approve"}

\* handlers started and not yet returned
Running(pcs) == {i \in 1..Len(pcs) : pcs[i] \in {"enter", "invoke"}}

\* plain "def" handlers: each request is run on a thread of the pool
CanDispatch_ThreadPool(pcs) == TRUE

\* "async def" handlers whose bodies hold no await: the event loop starts a
\* handler only when no other handler is running
CanDispatch(pcs) == Running(pcs) = {}

LoopIdle ==
    /\ l_requests = <<>>
    /\ l_pc = <<>>

LoopInit == LoopIdle

\* a client sends a request; it waits for the event loop
LoopArrive ==
    /\ Len(l_requests) < MaxRequests
    /\ \E kind \in LoopKinds, sid \in LoopSessions :
          l_requests' = Append(l_requests, [kind |-> kind, session_id |-> sid])
    /\ l_pc' = Append(l_pc, "pending")
    /\ UNCHANGED <<ep_vars, h_vars, g_vars, c_vars, k_vars, s_vars, fc_vars, sm_vars, cs_vars, st_vars>>

\* the event loop starts the handler of a waiting request
LoopDispatch ==
    /\ CanDispatch(l_pc)
    /\ \E i \in 1..Len(l_pc) :
          /\ l_pc[i] = "pending"
          /\ l_pc' = [l_pc EXCEPT ![i] = "enter"]
    /\ UNCHANGED l_requests
    /\ UNCHANGED <<ep_vars, h_vars, g_vars, c_vars, k_vars, s_vars, fc_vars, sm_vars, cs_vars, st_vars>>

\* the handler reaches compiled_graph.invoke (execute) or update_state
\* (approve) on the thread of its session id: the traversal is active
LoopInvoke ==
    /\ \E i \in 1..Len(l_pc) :
          /\ l_pc[i] = "enter"
          /\ l_pc' = [l_pc EXCEPT ![i] = "invoke"]
    /\ UNCHANGED l_requests
    /\ UNCHANGED <<ep_vars, h_vars, g_vars, c_vars, k_vars, s_vars, fc_vars, sm_vars, cs_vars, st_vars>>

\* the handler returns its response (or raises HTTPException before the
\* graph is touched)
LoopReturn ==
    /\ \E i \in 1..Len(l_pc) :
          /\ l_pc[i] \in {"enter", "invoke"}
          /\ l_pc' = [l_pc EXCEPT ![i] = "returned"]
    /\ UNCHANGED l_requests
    /\ UNCHANGED <<ep_vars, h_vars, g_vars, c_vars, k_vars, s_vars, fc_vars, sm_vars, cs_vars, st_vars>>

\* ---------------------------------------------------------------------
\* FunctionCaller.call_functions called on its own
\* ---------------------------------------------------------------------

\* function names of the tool calls: two registered tools, a name that is
\* in no table, and a call without a name
CallerNames == {"run_command", "change_directory", "no_such_tool", None}

\* the tool_calls lists given to call_functions
CallerInputs ==
    LET calls == {ToolCallRecord(name, arguments, out) :
                     name \in CallerNames, arguments \in ArgumentTexts, out \in ToolOutcomes}
    IN UNION {[1..n -> calls] : n \in 0..MaxCalls}

CallerIdle ==
    /\ fc_pc = "idle"
    /\ fc_tool_calls = <<>>
    /\ fc_results = <<>>

CallerInit ==
    /\ fc_pc = "input"
    /\ fc_tool_calls \in CallerInputs
    /\ fc_results = <<>>

\* call_functions(tool_calls) runs
CallerRun ==
    /\ fc_pc = "input"
    /\ fc_pc' = "done"
    /\ fc_results' = call_functions(fc_tool_calls)
    /\ UNCHANGED fc_tool_calls
    /\ UNCHANGED <<ep_vars, h_vars, g_vars, c_vars, k_vars, s_vars, l_vars, sm_vars, cs_vars, st_vars>>

\* ---------------------------------------------------------------------
\* summarize_node called on its own
\* ---------------------------------------------------------------------

\* the texts of the "errors" list, in order
ErrorTexts == <<"e1", "e2", "e3", "e4", "e5", "e6", "e7">>

\* verification_results as verify_node builds them: files_exist is false
\* only together with an error about a missing created file
VerificationValues ==
    {NoVerification,
     [NoVerification EXCEPT !.present = TRUE, !.files_exist = TRUE],
     [NoVerification EXCEPT !.present = TRUE, !.files_exist = TRUE,
                            !.errors = <<"Tool error">>],
     [NoVerification EXCEPT !.present = TRUE, !.files_exist = FALSE,
                            !.errors = <<"Created file does not exist">>]}

\* the final states given to summarize_node
SummarizeStates ==
    {[InitialState("refactor the parser") EXCEPT
         !.created_files = created,
         !.modified_files = modified,
         !.tool_results = results,
         !.errors = SubSeq(ErrorTexts, 1, n),
         !.verification_results = verification,
         !.plan = p] :
       created \in {<<>>, <<"a.py">>},
       modified \in {<<>>, <<"b.py", "c.py">>},
       results \in {<<>>, <<[success |-> TRUE]>>, <<[success |-> TRUE], [success |-> FALSE]>>},
       n \in {0, 1, 5, 6, 7},
       verification \in VerificationValues,
       p \in {NoPlan, [present |-> TRUE, steps |-> GenericPlan],
              [present |-> TRUE, steps |-> [ErrorPlan EXCEPT ![1].status = "completed"]]}}

SummarizeIdle ==
    /\ sm_pc = "idle"
    /\ sm_state = InitialState("")
    /\ sm_out = InitialState("")

SummarizeInit ==
    /\ sm_pc = "input"
    /\ sm_state \in SummarizeStates
    /\ sm_out = sm_state

\* summarize_node(state) runs
SummarizeRun ==
    /\ sm_pc = "input"
    /\ sm_pc' = "done"
    /\ sm_out' = summarize_node(sm_state)
    /\ UNCHANGED sm_state
    /\ UNCHANGED <<ep_vars, h_vars, g_vars, c_vars, k_vars, s_vars, l_vars, fc_vars, cs_vars, st_vars>>

\* ---------------------------------------------------------------------
\* ConversationState (command_center/conversation_state.py)
\* ---------------------------------------------------------------------

\* self.max_history
max_history == 10

\* bound on the calls made on the object after Init
MaxConvOps == 3

\* ConversationState.__init__
NewConversationState ==
    [last_file_shown |-> None, last_directory |-> None,
     recent_commands |-> <<>>, file_history |-> <<>>, recent_actions |-> <<>>]

\* "lst.append(x); if len(lst) > self.max_history: lst.pop(0)" keeping
\* every entry however long the list is
AppendBounded_KeepsAll(lst, x) == Append(lst, x)

\* "lst.append(x); if len(lst) > self.max_history: lst.pop(0)"
AppendBounded(lst, x) ==
    LET appended == Append(lst, x) IN
    IF Len(appended) > max_history THEN Tail(appended) ELSE appended

ActionEntry(action_type, data) == [type |-> action_type, data |-> data]

add_action(cs, action_type, data) ==
    [cs EXCEPT !.recent_actions = AppendBounded(@, ActionEntry(action_type, data))]

add_command(cs, command) ==
    [cs EXCEPT !.recent_commands = AppendBounded(@, command)]

update_file_shown(cs, file_path) ==
    LET known == \E i \in 1..Len(cs.file_history) : cs.file_history[i] = file_path
        cs1 == [cs EXCEPT !.last_file_shown = file_path,
                          !.file_history = IF known THEN @ ELSE AppendBounded(@, file_path)]
    IN add_action(cs1, "file_shown", file_path)

update_directory(cs, directory) ==
    add_action([cs EXCEPT !.last_directory = directory], "directory_changed", directory)

\* the commands and file paths of the calls made before Init, in call order
EarlierCommands == <<"c1", "c2", "c3", "c4", "c5", "c6", "c7", "c8", "c9", "c10">>
EarlierFiles == <<"p1", "p2", "p3", "p4", "p5", "p6", "p7", "p8", "p9", "p10">>

\* the object after add_command on the first m earlier commands and
\* update_file_shown on the first k earlier files
RECURSIVE AfterEarlierCalls(_, _)
AfterEarlierCalls(m, k) ==
    IF m > 0 THEN add_command(AfterEarlierCalls(m - 1, k), EarlierCommands[m])
    ELSE IF k > 0 THEN update_file_shown(AfterEarlierCalls(0, k - 1), EarlierFiles[k])
    ELSE NewConversationState

\* arguments of the calls made after Init
ConvCommands == {"ls"}
ConvFiles == {"p1", "p11", "p12"}
ConvDirectories == {"/tmp"}

ConversationIdle ==
    /\ conversation = NewConversationState
    /\ cs_commands = <<>>
    /\ cs_actions = <<>>
    /\ cs_ops = 0

ConversationInit ==
    \E m \in {0, 9, 10}, k \in {0, 9, 10} :
       /\ conversation = AfterEarlierCalls(m, k)
       /\ cs_commands = SubSeq(EarlierCommands, 1, m)
       /\ cs_actions = [i \in 1..k |-> ActionEntry("file_shown", EarlierFiles[i])]
       /\ cs_ops = 0

ConvAddCommand ==
    /\ cs_ops < MaxConvOps
    /\ \E command \in ConvCommands :
          /\ conversation' = add_command(conversation, command)
          /\ cs_commands' = Append(cs_commands, command)
    /\ cs_ops' = cs_ops + 1
    /\ UNCHANGED cs_actions
    /\ UNCHANGED <<ep_vars, h_vars, g_vars, c_vars, k_vars, s_vars, l_vars, fc_vars, sm_vars, st_vars>>

ConvUpdateFileShown ==
    /\ cs_ops < MaxConvOps
    /\ \E file_path \in ConvFiles :
          /\ conversation' = update_file_shown(conversation, file_path)
          /\ cs_actions' = Append(cs_actions, ActionEntry("file_shown", file_path))
    /\ cs_ops' = cs_ops + 1
    /\ UNCHANGED cs_commands
    /\ UNCHANGED <<ep_vars, h_vars, g_vars, c_vars, k_vars, s_vars, l_vars, fc_vars, sm_vars, st_vars>>

ConvUpdateDirectory ==
    /\ cs_ops < MaxConvOps
    /\ \E directory \in ConvDirectories :
          /\ conversation' = update_directory(conversation, directory)
          /\ cs_actions' = Append(cs_actions, ActionEntry("directory_changed", directory))
    /\ cs_ops' = cs_ops + 1
    /\ UNCHANGED cs_commands
    /\ UNCHANGED <<ep_vars, h_vars, g_vars, c_vars, k_vars, s_vars, l_vars, fc_vars, sm_vars, st_vars>>

\* ---------------------------------------------------------------------
\* StateManager (action_agent/state_manager.py) used by several threads
\* ---------------------------------------------------------------------

\* bound on the calls started on the object
MaxStateCalls == 3

Threads == {"t1", "t2"}

\* the file system: directories, and the one path that is a regular file
Directories == ExistingDirs \cup {"/srv/app/sub"}
RegularFiles == {"/tmp/f"}

\* the path arguments: a directory, a relative path, a file, a missing path
StatePaths == {"/tmp", "sub", "/tmp/f", "/nope"}

\* "os.path.abspath(path)" for an absolute path,
\* "os.path.abspath(os.path.join(self.current_directory, path))" otherwise
ResolvePath(current, path) ==
    IF SubSeq(path, 1, 1) = "/" THEN path ELSE current \o "/" \o path

\* the error of the record change_directory returns when a validation
\* fails, or None
ValidationError(target_path) ==
    IF target_path \notin Directories \cup RegularFiles THEN "Path does not exist"
    ELSE IF target_path \notin Directories THEN "Path is not a directory"
    ELSE None

\* StateManager.__init__: self.history after the "initialize" entry
InitialHistory == <<[action |-> "initialize", directory |-> ProcessCwd]>>

\* a lock that never makes a thread wait
LockFree_Always(l) == TRUE

\* threading.Lock: acquire goes through only while no thread holds it,
\* the holder itself included
LockFree(l) == l = None

NoStateCall == [kind |-> None, path |-> None, target_path |-> None,
                previous_directory |-> None, entry_directory |-> None, entry_length |-> 0]
NoStateResult == [returned |-> FALSE, success |-> FALSE, target_path |-> None,
                  entry_directory |-> None, entry_length |-> 0,
                  exit_directory |-> None, exit_history |-> <<>>]

\* what a returning call leaves in st_result
StateResult(call, success, directory, hist) ==
    [returned |-> TRUE, success |-> success, target_path |-> call.target_path,
     entry_directory |-> call.entry_directory, entry_length |-> call.entry_length,
     exit_directory |-> directory, exit_history |-> hist]

StateIdle ==
    /\ st_current_directory = ProcessCwd
    /\ st_history = InitialHistory
    /\ st_lock = None
    /\ st_pc = [t \in Threads |-> "idle"]
    /\ st_call = [t \in Threads |-> NoStateCall]
    /\ st_result = [t \in Threads |-> NoStateResult]
    /\ st_calls = 0

\* a thread calls change_directory(path) and reaches "with self._lock"
CallChangeDirectory(t) ==
    /\ st_pc[t] = "idle"
    /\ st_calls < MaxStateCalls
    /\ \E path \in StatePaths :
          st_call' = [st_call EXCEPT ![t] = [NoStateCall EXCEPT !.kind = "change_directory",
                                                                !.path = path]]
    /\ st_pc' = [st_pc EXCEPT ![t] = "acquire"]
    /\ st_calls' = st_calls + 1
    /\ UNCHANGED <<st_current_directory, st_history, st_lock, st_result>>
    /\ UNCHANGED <<ep_vars, h_vars, g_vars, c_vars, k_vars, s_vars, l_vars, fc_vars, sm_vars, cs_vars>>

\* a thread calls reset() and reaches "with self._lock"
CallReset(t) ==
    /\ st_pc[t] = "idle"
    /\ st_calls < MaxStateCalls
    /\ st_call' = [st_call EXCEPT ![t] = [NoStateCall EXCEPT !.kind = "reset"]]
    /\ st_pc' = [st_pc EXCEPT ![t] = "acquire"]
    /\ st_calls' = st_calls + 1
    /\ UNCHANGED <<st_current_directory, st_history, st_lock, st_result>>
    /\ UNCHANGED <<ep_vars, h_vars, g_vars, c_vars, k_vars, s_vars, l_vars, fc_vars, sm_vars, cs_vars>>

\* "with self._lock" is entered.  In change_directory the thread goes on to
\* resolve the path.  In reset the history is not empty, so the thread calls
\* self.change_directory(initial_dir) and reaches that method's
\* "with self._lock" while holding the lock.
AcquireLock(t) ==
    /\ st_pc[t] = "acquire"
    /\ LockFree(st_lock)
    /\ st_lock' = t
    /\ IF st_call[t].kind = "reset"
       THEN /\ st_call' = [st_call EXCEPT ![t] =
                              [NoStateCall EXCEPT !.kind = "change_directory",
                                                  !.path = st_history[1].directory]]
            /\ UNCHANGED st_pc
       ELSE /\ st_call' = [st_call EXCEPT ![t].entry_directory = st_current_directory,
                                          ![t].entry_length = Len(st_history)]
            /\ st_pc' = [st_pc EXCEPT ![t] = "validate"]
    /\ UNCHANGED <<st_current_directory, st_history, st_result, st_calls>>
    /\ UNCHANGED <<ep_vars, h_vars, g_vars, c_vars, k_vars, s_vars, l_vars, fc_vars, sm_vars, cs_vars>>

\* the path is resolved and validated; a failure returns at once, which
\* leaves the with block and releases the lock
ValidatePath(t) ==
    /\ st_pc[t] = "validate"
    /\ LET target_path == ResolvePath(st_current_directory, st_call[t].path)
           error == ValidationError(target_path)
           call == [st_call[t] EXCEPT !.target_path = target_path,
                                      !.previous_directory = st_current_directory] IN
       IF error # None
       THEN /\ st_result' = [st_result EXCEPT ![t] =
                                StateResult(call, FALSE, st_current_directory, st_history)]
            /\ st_call' = [st_call EXCEPT ![t] = NoStateCall]
            /\ st_pc' = [st_pc EXCEPT ![t] = "idle"]
            /\ st_lock' = None
       ELSE /\ st_call' = [st_call EXCEPT ![t] = call]
            /\ st_pc' = [st_pc EXCEPT ![t] = "assign"]
            /\ UNCHANGED <<st_result, st_lock>>
    /\ UNCHANGED <<st_current_directory, st_history, st_calls>>
    /\ UNCHANGED <<ep_vars, h_vars, g_vars, c_vars, k_vars, s_vars, l_vars, fc_vars, sm_vars, cs_vars>>

\* "self.current_directory = target_path"
AssignDirectory(t) ==
    /\ st_pc[t] = "assign"
    /\ st_current_directory' = st_call[t].target_path
    /\ st_pc' = [st_pc EXCEPT ![t] = "record"]
    /\ UNCHANGED <<st_history, st_lock, st_call, st_result, st_calls>>
    /\ UNCHANGED <<ep_vars, h_vars, g_vars, c_vars, k_vars, s_vars, l_vars, fc_vars, sm_vars, cs_vars>>

\* the history entry is appended and the call returns, which leaves the
\* with block and releases the lock
RecordAndReturn(t) ==
    /\ st_pc[t] = "record"
    /\ LET hist == Append(st_history, [action |-> "change_directory",
                                    from |-> st_call[t].previous_directory,
                                    to |-> st_call[t].target_path]) IN
       /\ st_history' = hist
       /\ st_result' = [st_result EXCEPT ![t] =
                           StateResult(st_call[t], TRUE, st_current_directory, hist)]
    /\ st_call' = [st_call EXCEPT ![t] = NoStateCall]
    /\ st_pc' = [st_pc EXCEPT ![t] = "idle"]
    /\ st_lock' = None
    /\ UNCHANGED <<st_current_directory, st_calls>>
    /\ UNCHANGED <<ep_vars, h_vars, g_vars, c_vars, k_vars, s_vars, l_vars, fc_vars, sm_vars, cs_vars>>

Init == PlanInit /\ HandleIdle /\ GraphInit /\ CenterIdle /\ ClassifyIdle /\ SessionIdle /\ LoopIdle /\ CallerIdle /\ SummarizeIdle /\ ConversationIdle /\ StateIdle
Next == EmptyPlan \/ ExecuteStep \/ FinishPlan
Spec == Init /\ [][Next]_vars

HandleSpecInit == PlanIdle /\ HandleInit /\ GraphInit /\ CenterIdle /\ ClassifyIdle /\ SessionIdle /\ LoopIdle /\ CallerIdle /\ SummarizeIdle /\ ConversationIdle /\ StateIdle
HandleNext == HandleOracleError \/ HandleFinalAnswer \/ HandleToolCalls \/ HandleMaxIterations
HandleSpec == HandleSpecInit /\ [][HandleNext]_vars

GraphSpecInit == PlanIdle /\ HandleIdle /\ GraphInit /\ CenterIdle /\ ClassifyIdle /\ SessionIdle /\ LoopIdle /\ CallerIdle /\ SummarizeIdle /\ ConversationIdle /\ StateIdle
GraphNext ==
    \/ Execute \/ RunNode \/ RunPlanner \/ RunChatAgent
    \/ AgentRaises \/ AgentAnswers \/ AgentProposes \/ RunTools
    \/ Respond \/ Approve
GraphSpec == GraphSpecInit /\ [][GraphNext]_vars

InvokeNext ==
    \/ Invoke \/ RunNode \/ RunChatAgent
    \/ AgentRaises \/ AgentAnswers \/ AgentProposes \/ RunTools
InvokeSpec == GraphSpecInit /\ [][InvokeNext]_vars

CenterSpecInit == PlanIdle /\ HandleIdle /\ GraphInit /\ CenterInit /\ ClassifyIdle /\ SessionIdle /\ LoopIdle /\ CallerIdle /\ SummarizeIdle /\ ConversationIdle /\ StateIdle
CenterNext == CenterHandle \/ CenterParse \/ CenterRoute \/ CenterExecuteStep \/ CenterFinish
CenterSpec == CenterSpecInit /\ [][CenterNext]_vars

RouterSpecInit == PlanIdle /\ HandleIdle /\ GraphInit /\ CenterIdle /\ ClassifyIdle /\ SessionIdle /\ LoopIdle /\ CallerIdle /\ SummarizeIdle /\ ConversationIdle /\ StateIdle
RouterNext == RouteCall
RouterSpec == RouterSpecInit /\ [][RouterNext]_vars

ClassifySpecInit == PlanIdle /\ HandleIdle /\ GraphInit /\ CenterIdle /\ ClassifyInit /\ SessionIdle /\ LoopIdle /\ CallerIdle /\ SummarizeIdle /\ ConversationIdle /\ StateIdle
ClassifyNext == ClassifyRun
ClassifySpec == ClassifySpecInit /\ [][ClassifyNext]_vars

SessionSpecInit == PlanIdle /\ HandleIdle /\ GraphInit /\ CenterIdle /\ ClassifyIdle /\ SessionInit /\ LoopIdle /\ CallerIdle /\ SummarizeIdle /\ ConversationIdle /\ StateIdle
SessionNext == SessionGetOrCreate \/ SessionChangeDirectory \/ SessionRunCommand
SessionSpec == SessionSpecInit /\ [][SessionNext]_vars

LoopSpecInit == PlanIdle /\ HandleIdle /\ GraphInit /\ CenterIdle /\ ClassifyIdle /\ SessionIdle /\ LoopInit /\ CallerIdle /\ SummarizeIdle /\ ConversationIdle /\ StateIdle
LoopNext == LoopArrive \/ LoopDispatch \/ LoopInvoke \/ LoopReturn
LoopSpec == LoopSpecInit /\ [][LoopNext]_vars

CallerSpecInit ==
    PlanIdle /\ HandleIdle /\ GraphInit /\ CenterIdle /\ ClassifyIdle /\ SessionIdle /\ LoopIdle
       /\ CallerInit /\ SummarizeIdle /\ ConversationIdle /\ StateIdle
CallerNext == CallerRun
CallerSpec == CallerSpecInit /\ [][CallerNext]_vars

SummarizeSpecInit ==
    PlanIdle /\ HandleIdle /\ GraphInit /\ CenterIdle /\ ClassifyIdle /\ SessionIdle /\ LoopIdle
       /\ CallerIdle /\ SummarizeInit /\ ConversationIdle /\ StateIdle
SummarizeNext == SummarizeRun
SummarizeSpec == SummarizeSpecInit /\ [][SummarizeNext]_vars

ConversationSpecInit ==
    PlanIdle /\ HandleIdle /\ GraphInit /\ CenterIdle /\ ClassifyIdle /\ SessionIdle /\ LoopIdle
       /\ CallerIdle /\ SummarizeIdle /\ ConversationInit /\ StateIdle
ConversationNext == ConvAddCommand \/ ConvUpdateFileShown \/ ConvUpdateDirectory
ConversationSpec == ConversationSpecInit /\ [][ConversationNext]_vars

StateSpecInit ==
    PlanIdle /\ HandleIdle /\ GraphInit /\ CenterIdle /\ ClassifyIdle /\ SessionIdle /\ LoopIdle
       /\ CallerIdle /\ SummarizeIdle /\ ConversationIdle /\ StateIdle
StateNext ==
    \E t \in Threads :
       \/ CallChangeDirectory(t) \/ CallReset(t) \/ AcquireLock(t)
       \/ ValidatePath(t) \/ AssignDirectory(t) \/ RecordAndReturn(t)
StateSpec == StateSpecInit /\ [][StateNext]_vars

\* ---------------------------------------------------------------------
\* Properties
\* ---------------------------------------------------------------------

\* C1: with fail_fast, once step k is the first failed step, the steps list
\* holds exactly the first k plan steps in plan order, no function of a later
\* step is ever called, and when that step's function returned a result
\* reporting failure the executor returns exactly those k entries.
C1_FailFast ==
    (fail_fast /\ failed_at > 0) =>
        /\ Len(steps) = failed_at
        /\ \A j \in 1..Len(steps) : steps[j].step = j /\ steps[j].function = plan[j]
        /\ \A j \in 1..Len(invoked) : invoked[j] <= failed_at
        /\ ep_pc \in {"finish", "returned", "raised"}
        /\ (ep_pc \in {"returned", "raised"} /\ steps[failed_at].has_result) =>
              /\ ep_pc = "returned"
              /\ ep_result.steps = steps
              /\ Len(ep_result.steps) = failed_at

C1_Witness ==
    /\ fail_fast /\ failed_at = 2 /\ Len(plan) = 3
    /\ ep_pc = "returned" /\ Len(ep_result.steps) = 2
    /\ plan[3] \in function_map

\* C2: execute_plan never lets an exception escape; a plan with an unknown
\* function or a raising function still returns a record with success false,
\* the attempted steps, the last attempted step's result and the errors.
C2_NoExceptionEscapes ==
    /\ ep_pc # "raised"
    /\ (ep_pc = "returned" /\ Len(plan) > 0) =>
          /\ ep_result.steps = steps
          /\ ep_result.errors = errors
          /\ ep_result.final_result = steps[Len(steps)].step
          /\ (\E j \in 1..Len(steps) : ~steps[j].has_result) => ~ep_result.success

\* C8: handle never makes more than max_iterations oracle calls, and when all
\* max_iterations calls proposed tool calls the turn ends with success false
\* and the maximum-iterations message.
C8_IterationBound ==
    /\ oracle_calls <= max_iterations
    /\ (h_pc = "done" /\ ~oracle_failed /\ h_messages[Len(h_messages)].kind # "text") =>
          /\ oracle_calls = max_iterations
          /\ h_response = [success |-> FALSE, message |-> "Maximum iterations reached"]
    /\ (h_pc = "loop" /\ oracle_calls = max_iterations) => ENABLED HandleMaxIterations

C8_Witness ==
    /\ h_pc = "done" /\ max_iterations = 2 /\ oracle_calls = 2
    /\ h_response.message = "Maximum iterations reached"
    /\ Len(h_tool_results) >= 2
\* The traversal never reaches hil and never suspends: verify_node scans
\* state["tool_calls"], which the agent's last answer left empty.
NeverSuspends ==
    /\ node \notin {"hil", "interrupted"}
    /\ ~state.requires_approval
    /\ state.approval_status # "pending"
    /\ checkpoint.next # "hil"

\* C3: right after verify has run, if a tool call executed in this traversal
\* was a write_file under /etc/, /usr/ or /var/ or a start_service,
\* stop_service or restart_service call, requires_approval is true.
C3_ApprovalAfterVerify ==
    LET protected(tc) == /\ tc.name = "write_file"
                         /\ \E pre \in {"/etc/", "/usr/", "/var/"} :
                               /\ Len(tc.arg) >= Len(pre)
                               /\ SubSeq(tc.arg, 1, Len(pre)) = pre
        service(tc) == tc.name \in {"start_service", "stop_service", "restart_service"}
    IN (/\ Len(ran) > 0
        /\ ran[Len(ran)] = "verify"
        /\ \E k \in 1..Len(executed) : protected(executed[k]) \/ service(executed[k]))
       => state.requires_approval

\* C4: a traversal that ran the command "rm -rf /" has requires_approval true
\* after verify and goes to the HIL gate; once the decision "rejected" is
\* recorded for it, the state holds the error "Operation rejected by user",
\* the response has success false, and no node ran after the decision.
C4_RejectedRmRf ==
    LET ran_rm == \E k \in 1..Len(executed) :
                     executed[k].name = "run_command" /\ executed[k].arg = "rm -rf /"
    IN /\ (ran_rm /\ Len(ran) > 0 /\ ran[Len(ran)] = "verify") =>
             (state.requires_approval /\ node = "hil")
       /\ (ran_rm /\ node = "idle" /\ checkpoint.values.approval_status = "rejected") =>
             /\ \E k \in 1..Len(checkpoint.values.errors) :
                   checkpoint.values.errors[k] = "Operation rejected by user"
             /\ response.present /\ ~response.success

\* C9: every tool call the agent proposed in an iteration has been invoked
\* exactly once, with one tool result and one tool message, by the time
\* control is back at the agent, and no call is ever invoked twice.
C9_OneResultPerCall ==
    LET times(id) == Cardinality({k \in 1..Len(executed) : executed[k].id = id})
        tool_messages == SelectSeq(state.messages, LAMBDA m : m.role = "tool_message")
    IN (node \notin {"idle", "ingress"}) =>
       /\ \A j \in 1..Len(proposed) :
             /\ times(proposed[j].id) <= 1
             /\ (proposed[j].turn < agent_turns \/ node \in {"agent", "verify"})
                   => times(proposed[j].id) = 1
       /\ Len(state.tool_results) = Len(executed)
       /\ Len(tool_messages) = Len(executed)

\* C10: once an oracle call of the execution loop has failed, no further
\* oracle call and no tool invocation happens in that turn, and the response
\* of the turn has success false.
C10_OracleFailureFatal ==
    /\ calls_after_failure = 0
    /\ (oracle_failed /\ h_pc = "done") => ~h_response.success
    /\ g_after_failure = 0
    /\ (g_agent_failed /\ response.present) => ~response.success

\* C11: a tool call that raised is recorded as a tool result with success
\* false and an error message, every later tool call proposed in the same
\* agent turn is executed as well, and the tool node hands control back to
\* the agent.
C11_RaiseDoesNotAbort ==
    LET tool_messages == SelectSeq(state.messages, LAMBDA m : m.role = "tool_message")
        turn_of(id) == (CHOOSE j \in 1..Len(proposed) : proposed[j].id = id)
    IN /\ \A k \in 1..Len(executed) :
             tool_messages[k].content = "Error" =>
                /\ ~state.tool_results[k].success
                /\ \A j \in 1..Len(proposed) :
                      (/\ proposed[j].turn = proposed[turn_of(executed[k].id)].turn
                       /\ proposed[j].id > executed[k].id)
                      => \E m \in 1..Len(executed) : executed[m].id = proposed[j].id
       /\ (Len(ran) > 0 /\ ran[Len(ran)] \in ToolNodes) => node = "agent"

\* C12: handle("restart nginx") on a host where nginx is running and every
\* command succeeds routes to the plan [check, stop, start, verify] on nginx,
\* attempts all four steps, records each as succeeded, and returns success.
C12_RestartNginx ==
    (c_request = "restart nginx" /\ c_pc \in {"done", "raised"} /\ svc_initial /\ ~cmd_failed) =>
        /\ c_plan = <<PlanStep("check", "check_service", <<"nginx">>),
                      PlanStep("stop", "stop_service", <<"nginx">>),
                      PlanStep("start", "start_service", <<"nginx">>),
                      PlanStep("verify", "check_service", <<"nginx">>)>>
        /\ Len(c_steps) = 4
        /\ \A j \in 1..Len(c_steps) : c_steps[j].success
        /\ c_response.present /\ c_response.success

\* C13: whatever route calls came before, a route call for an action type
\* with a registered template returns a non-empty step list that has the
\* template's steps and functions in order, with the current call's target
\* in place of every "target" placeholder, and the stored templates are as
\* the constructor built them.
C13_RouteSubstitutes ==
    /\ action_plans = InitialActionPlans
    /\ Len(r_calls) > 0 =>
          LET last == r_calls[Len(r_calls)] IN
          last.action \in DOMAIN InitialActionPlans =>
             LET template == InitialActionPlans[last.action] IN
             /\ Len(r_plan) > 0
             /\ Len(r_plan) = Len(template)
             /\ \A j \in 1..Len(template) :
                   /\ r_plan[j].step = template[j].step
                   /\ r_plan[j].function = template[j].function
                   /\ Len(r_plan[j].args) = Len(template[j].args)
                   /\ \A k \in 1..Len(template[j].args) :
                         r_plan[j].args[k] = IF template[j].args[k] = "target"
                                             THEN last.target ELSE template[j].args[k]

C13_Witness ==
    /\ Len(r_calls) = 2
    /\ r_calls[1] = [action |-> "restart_service", target |-> "nginx"]
    /\ r_calls[2] = [action |-> "restart_service", target |-> "redis"]
    /\ Len(r_plan) = 4
    /\ r_plan[2].args = <<"redis">>

\* C14: when handle has returned for a request whose parsed intent is
\* "unknown" or names an action type without a template, the router's plan
\* for that intent is empty, no function of the orchestrator was called, no
\* exception escaped, and the response has success false and a message.
C14_UnknownIsUnsuccessful ==
    (/\ c_pc \in {"done", "raised"}
     /\ c_request # ""
     /\ (c_intent.action = "unknown" \/ c_intent.action \notin DOMAIN action_plans)) =>
        /\ route(action_plans, c_intent) = <<>>
        /\ c_plan = <<>>
        /\ c_pc = "done"
        /\ c_response.present /\ ~c_response.success /\ c_response.message # ""
        /\ c_invoked = <<>>

C14_Witness ==
    /\ c_request = "do something weird and crazy"
    /\ c_intent.action = "unknown"
    /\ c_pc = "done"
    /\ c_response.present

\* C15: when execute_plan returns for a non-empty plan, the success flag of
\* the returned record is true exactly when the returned errors list is
\* empty and every entry of the returned steps list has success true.
C15_SuccessIffNoFailure ==
    (ep_pc = "returned" /\ Len(plan) > 0) =>
        (ep_result.success <=>
            (/\ ep_result.errors = <<>>
             /\ \A j \in 1..Len(ep_result.steps) : ep_result.steps[j].success))

C15_Witness ==
    /\ ep_pc = "returned" /\ Len(plan) = 3 /\ ~fail_fast
    /\ Len(ep_result.steps) = 3
    /\ ~ep_result.steps[1].success
    /\ ep_result.steps[3].success
    /\ ~ep_result.success

\* C16: right after a planner run whose oracle call raised, the
\* plan is the 3-step generic plan (understand, execute, verify), errors
\* holds exactly one planning-error entry, and the agent node is next.
C16_RaiseGivesGenericPlan ==
    (planner_call = "raised" /\ Len(ran) > 0 /\ ran[Len(ran)] = "planner") =>
        /\ state.plan.present
        /\ Len(state.plan.steps) = 3
        /\ state.plan.steps[1].action = "Understand the task"
        /\ state.plan.steps[2].action = "Execute the task"
        /\ state.plan.steps[3].action = "Verify completion"
        /\ state.errors = <<"Planning error">>
        /\ node = "agent"

\* C17: right after a planner run whose oracle answered with a text from
\* which no step was extracted, the plan is the 3-step generic plan
\* (understand, execute, verify) and errors holds a planning-error entry.
C17_UnparseableGivesGenericPlanAndError ==
    (planner_call = "unparseable" /\ Len(ran) > 0 /\ ran[Len(ran)] = "planner") =>
        /\ state.plan.present
        /\ Len(state.plan.steps) = 3
        /\ state.plan.steps[1].action = "Understand the task"
        /\ state.plan.steps[2].action = "Execute the task"
        /\ state.plan.steps[3].action = "Verify completion"
        /\ \E k \in 1..Len(state.errors) : state.errors[k] = "Planning error"

\* C18: in a traversal classified as planning, when the agent node is about
\* to run for the first time the plan exists, has at least one step, every
\* step is pending and current_step is 0, whatever the planner's oracle did.
C18_AgentReceivesPlan ==
    (state.mode = "planning" /\ node = "agent" /\ agent_turns = 0) =>
        /\ planner_call \in {"raised", "unparseable", "parsed"}
        /\ state.plan.present
        /\ Len(state.plan.steps) >= 1
        /\ \A j \in 1..Len(state.plan.steps) : state.plan.steps[j].status = "pending"
        /\ state.current_step = 0

C18_Witness ==
    /\ state.mode = "planning" /\ node = "agent" /\ agent_turns = 0
    /\ planner_call = "unparseable"
    /\ Len(state.plan.steps) = 3

\* C19: router_node classifies by the first match in the order complex,
\* code, web, action, chat: a complex indicator gives (complex, planning)
\* whatever other keywords the message holds; else a code keyword gives
\* code, planning exactly when the message has more than 10 tokens; else a
\* web keyword gives (web, simple); else an action keyword gives
\* (action, simple); else, the empty message included, (chat, simple).
C19_PriorityOrder ==
    k_pc = "done" =>
        LET m == FirstUserMessage(k_state, "")
            has(keywords) == \E w \in keywords : Contains(Lower(m), w)
            is(intent, mode) == k_out.intent = intent /\ k_out.mode = mode
        IN /\ has(complex_indicators) => is("complex", "planning")
           /\ (~has(complex_indicators) /\ has(code_keywords)) =>
                 /\ k_out.intent = "code"
                 /\ k_out.mode = IF TokenCount(m) > 10 THEN "planning" ELSE "simple"
           /\ (~has(complex_indicators) /\ ~has(code_keywords) /\ has(web_keywords)) =>
                 is("web", "simple")
           /\ (/\ ~has(complex_indicators) /\ ~has(code_keywords)
               /\ ~has(web_keywords) /\ has(action_keywords)) =>
                 is("action", "simple")
           /\ (/\ ~has(complex_indicators) /\ ~has(code_keywords)
               /\ ~has(web_keywords) /\ ~has(action_keywords)) =>
                 is("chat", "simple")

C19_Witness ==
    LET l == Lower(FirstUserMessage(k_state, "")) IN
    /\ k_pc = "done"
    /\ ContainsAny(l, complex_indicators) /\ ContainsAny(l, code_keywords)
    /\ ContainsAny(l, web_keywords) /\ ContainsAny(l, action_keywords)
    /\ k_out.intent = "complex" /\ k_out.mode = "planning"

\* C20: two runs of router_node on states with the same first user message
\* give the same (intent, mode) whatever the other fields hold, and
\* router_node changes no field other than intent and mode.
C20_PureAndFramed ==
    k_pc = "done" =>
        /\ FirstUserMessage(k_state, "") = FirstUserMessage(k_other, "")
        /\ k_out.intent = k_other_out.intent
        /\ k_out.mode = k_other_out.mode
        /\ \A f \in DOMAIN k_state \ {"intent", "mode"} :
              k_out[f] = k_state[f] /\ k_other_out[f] = k_other[f]

C20_Witness ==
    /\ k_pc = "done"
    /\ k_state.errors # k_other.errors
    /\ k_state.messages # k_other.messages
    /\ k_state.intent # k_other.intent
    /\ k_out.intent = "code" /\ k_out.mode = "planning"
    /\ k_other_out.intent = "code" /\ k_other_out.mode = "planning"

\* C21: whenever the traversal's state has a plan, current_step lies between
\* 0 and the number of plan steps, and no transition between two states
\* that have a plan lowers current_step.
C21_CurrentStepMonotone ==
    /\ [](state.plan.present =>
             /\ state.current_step >= 0
             /\ state.current_step <= Len(state.plan.steps))
    /\ [][(state.plan.present /\ state'.plan.present) =>
             state'.current_step >= state.current_step]_vars

C21_Witness ==
    /\ state.plan.present
    /\ state.current_step = 1
    /\ state.plan.steps[1].status = "completed"
    /\ Len(ran) > 0 /\ ran[Len(ran)] = "agent"

\* C24: get_or_create_session with a missing id or one that is not in the
\* registry creates a fresh session whose id differs from every existing id
\* and leaves the existing sessions unchanged; with an id of the registry it
\* returns that session and creates or replaces nothing.
C24_GetOrCreateSession ==
    api_call.op = "get_or_create" =>
        LET before == api_call.before
            known == api_call.cookie \in DOMAIN before
        IN /\ known =>
                 /\ api_call.sid = api_call.cookie
                 /\ sessions = before
           /\ ~known =>
                 /\ api_call.sid \notin DOMAIN before
                 /\ DOMAIN sessions = DOMAIN before \cup {api_call.sid}
                 /\ \A x \in DOMAIN before : sessions[x] = before[x]
                 /\ sessions[api_call.sid] = NewSessionData(api_call.sid)

C24_Witness ==
    /\ api_call.op = "get_or_create"
    /\ api_call.cookie \in DOMAIN api_call.before
    /\ Cardinality(DOMAIN sessions) = 2
    /\ sessions[api_call.sid].v3.present
    /\ sessions[api_call.sid].v3.current_directory = "/tmp"

\* C26: a change_directory tool call executed for one session, in LLM or
\* agentic mode, never changes the working directory another session
\* observes (in either mode).
C26_DirectoryNotShared ==
    [][api_call'.op = "change_directory" =>
          \A b \in DOMAIN sessions \ {api_call'.sid} : \A mode \in Modes :
              ObservedDirectory(sessions', tool_executor', b, mode)
                 = ObservedDirectory(sessions, tool_executor, b, mode)]_vars

\* C27: a run(command) without cwd on an executor whose latest successful
\* change_directory went to p executes in p.
C27_RunUsesTrackedDirectory ==
    (api_call.op = "run_command" /\ api_call.last_cd # "") =>
        api_call.ran_in = api_call.last_cd

\* C25: under every interleaving of execute and approve requests, two
\* requests of one session id never have their handlers running at the
\* same time, so the session has at most one active traversal and its
\* orchestration state has at most one writer.
C25_OneTraversalPerSession ==
    \A i, j \in Running(l_pc) :
        l_requests[i].session_id = l_requests[j].session_id => i = j

C25_Witness ==
    \E i, j \in 1..Len(l_pc) :
        /\ l_requests[i].session_id = l_requests[j].session_id
        /\ l_requests[i].kind = "execute" /\ l_requests[j].kind = "approve"
        /\ l_pc[i] = "invoke" /\ l_pc[j] = "pending"

\* C28: call_functions returns exactly one result per tool call, in call
\* order, and a call whose name is in no table gets a failure result with
\* the error "Unknown function: <name>" and no tool is invoked for it.
C28_OneResultPerToolCall ==
    fc_pc = "done" =>
        /\ Len(fc_results) = Len(fc_tool_calls)
        /\ \A j \in 1..Len(fc_tool_calls) :
              LET name == fc_tool_calls[j].name IN
              /\ fc_results[j].name = name
              /\ (name # None /\ name \notin caller_function_map) =>
                    /\ ~fc_results[j].success
                    /\ fc_results[j].error = "Unknown function: " \o name
                    /\ ~fc_results[j].called

C28_Witness ==
    /\ fc_pc = "done"
    /\ Len(fc_tool_calls) = 2
    /\ fc_tool_calls[1].name = "no_such_tool"
    /\ fc_tool_calls[2].name = "run_command"
    /\ fc_results[1].error = "Unknown function: no_such_tool"
    /\ fc_results[2].called /\ fc_results[2].success

\* C29: every response CommandCenter.handle or LLMCommandCenter.handle
\* returns has a boolean success flag and a string message (every return
\* statement also builds the data object), and handle never ends by raising.
C29_TerminalResponse ==
    /\ (h_pc = "done" /\ h_messages # <<>>) =>
          /\ h_response.success \in BOOLEAN
          /\ h_response.message # None
    /\ c_pc # "raised"
    /\ (c_pc = "done" /\ c_request # "") =>
          /\ c_response.present
          /\ c_response.success \in BOOLEAN
          /\ c_response.message # ""

\* C30: summarize_node always stores a non-empty summary; the summary is
\* exactly "Task completed" when the state has no created or modified
\* files, no tool results, no errors, no verification results and no plan;
\* otherwise it is a report, and a report lists the first 5 errors at most.
C30_SummaryNeverEmpty ==
    sm_pc = "done" =>
        LET nothing == /\ sm_state.created_files = <<>>
                       /\ sm_state.modified_files = <<>>
                       /\ sm_state.tool_results = <<>>
                       /\ sm_state.errors = <<>>
                       /\ ~sm_state.verification_results.present
                       /\ ~sm_state.plan.present
            task_completed == <<[kind |-> "Task completed"]>>
            summary == sm_out.summary
        IN /\ summary # <<>>
           /\ nothing => summary = task_completed
           /\ ~nothing =>
                 /\ summary # task_completed
                 /\ \A j \in 1..Len(summary) :
                       summary[j].kind = "errors" =>
                          /\ Len(summary[j].listed) <= 5
                          /\ Len(summary[j].listed) <= Len(sm_state.errors)
                          /\ \A e \in 1..Len(summary[j].listed) :
                                summary[j].listed[e] = sm_state.errors[e]
                 /\ sm_state.errors # <<>> =>
                       \E j \in 1..Len(summary) :
                           /\ summary[j].kind = "errors"
                           /\ Len(summary[j].listed) = IF Len(sm_state.errors) < 5
                                                       THEN Len(sm_state.errors) ELSE 5

C30_Witness ==
    /\ sm_pc = "done"
    /\ Len(sm_state.errors) = 7
    /\ \E j \in 1..Len(sm_out.summary) :
          sm_out.summary[j].kind = "errors" /\ Len(sm_out.summary[j].listed) = 5

\* C32: the agent / tool-node loop is bounded by a configured maximum
\* iteration count: once that many oracle calls were made, the traversal ends
\* with a max-iterations failure and the agent node is not entered again.  The
\* graph keeps no such count, so the statement is put for the largest
\* number of agent turns explored: with that many turns taken, the agent node
\* is entered again only with the failure recorded.
C32_LoopBoundedByMaxIterations ==
    (node = "agent" /\ agent_turns >= MaxTurns) =>
        \E i \in 1..Len(state.errors) : state.errors[i] = "Max iterations"

\* C33: the node that follows an agent turn is decided by the first tool call
\* the turn left in tool_calls and by nothing else: code_tools for read_file,
\* write_file and list_files, web_tools for web_search and fetch_url,
\* action_tools for every other name, and verify when there is no tool call.
C33_FirstCallDecides ==
    (Len(ran) > 0 /\ ran[Len(ran)] = "agent") =>
        node = IF state.tool_calls = <<>> THEN "verify"
               ELSE IF state.tool_calls[1].name \in {"read_file", "write_file", "list_files"}
                    THEN "code_tools"
               ELSE IF state.tool_calls[1].name \in {"web_search", "fetch_url"}
                    THEN "web_tools"
               ELSE "action_tools"

C33_Witness ==
    /\ Len(ran) > 0 /\ ran[Len(ran)] = "agent"
    /\ Len(state.tool_calls) = 2
    /\ state.tool_calls[1].name = "web_search"
    /\ state.tool_calls[2].name = "run_command"
    /\ node = "web_tools"

\* C34: in a traversal whose request the router classified as chat, only
\* ingress, router and chat_agent run, in that order, the traversal ends after
\* chat_agent, no tool is invoked and at most one oracle call is made.
C34_ChatPath ==
    (Len(ran) >= 2 /\ ran[2] = "router" /\ state.intent = "chat") =>
        /\ \/ ran = <<"ingress", "router">> /\ node = "chat_agent"
           \/ ran = <<"ingress", "router", "chat_agent">> /\ node \in {"end", "idle"}
        /\ executed = <<>>
        /\ proposed = <<>>
        /\ g_oracle_calls <= 1

C34_Witness ==
    /\ state.intent = "chat"
    /\ ran = <<"ingress", "router", "chat_agent">>
    /\ node = "end"
    /\ g_oracle_calls = 1
    /\ executed = <<>>

\* C36: a traversal whose request the ingress node rejected (no messages, or
\* a first user message that is empty or only spaces) has the ingress error
\* recorded, makes no oracle call, invokes no tool, and ends after chat_agent.
C36_RejectedRequestCallsNothing ==
    LET rejected == \/ state.messages = <<>>
                    \/ IsBlank(FirstUserMessage(state, ""))
    IN (Len(ran) >= 1 /\ ran[1] = "ingress" /\ rejected) =>
          /\ \E i \in 1..Len(state.errors) :
                state.errors[i] \in {"No messages in request", "Empty request"}
          /\ g_oracle_calls = 0
          /\ executed = <<>>
          /\ node \in {"router", "chat_agent", "end"}

\* C38: in one traversal at most one plan step is marked completed; it is
\* marked on an agent turn that proposed no tool call, and that turn is
\* followed by verify; so when summarize has run current_step is at most 1
\* and a plan of two or more steps is not completed in full.
C38_OneStepPerTraversal ==
    LET completed == Len(SelectSeq(state.plan.steps, LAMBDA st : st.status = "completed"))
        agents == {i \in 1..Len(ran) : ran[i] = "agent"}
        last == CHOOSE i \in agents : \A j \in agents : j <= i
    IN state.plan.present =>
          /\ completed <= 1
          /\ state.current_step <= 1
          /\ completed = 1 =>
                /\ agents # {}
                /\ state.tool_calls = <<>>
                /\ IF last = Len(ran) THEN node = "verify" ELSE ran[last + 1] = "verify"
          /\ (\E i \in 1..Len(ran) : ran[i] = "summarize") =>
                (Len(state.plan.steps) >= 2 => completed < Len(state.plan.steps))

C38_Witness ==
    /\ state.plan.present
    /\ Len(state.plan.steps) = 3
    /\ state.plan.steps[1].status = "completed"
    /\ state.current_step = 1
    /\ \E i \in 1..Len(ran) : ran[i] = "summarize"
    /\ executed # <<>>

\* C39: a tool that was called and did not succeed, whether it raised or
\* returned a record with success false, gives a FunctionCaller result with
\* success false, and the tool message built from it for the oracle is an
\* error message.
C39_FailedRecordIsFailure ==
    fc_pc = "done" =>
        \A j \in 1..Len(fc_results) :
            (fc_results[j].called /\ ~fc_results[j].tool_success) =>
                /\ ~fc_results[j].success
                /\ ToolMessage(fc_results[j]).kind = "error"

\* C31: after any sequence of add_command, update_file_shown and
\* update_directory calls, recent_commands and recent_actions hold at most 10
\* entries each, namely the most recently added ones in the order they were
\* added, and file_history holds at most 10 entries.
C31_BoundedHistories ==
    LET Latest(added) == SubSeq(added, IF Len(added) > 10 THEN Len(added) - 9 ELSE 1,
                                Len(added))
    IN /\ Len(conversation.recent_commands) <= 10
       /\ Len(conversation.recent_actions) <= 10
       /\ Len(conversation.file_history) <= 10
       /\ conversation.recent_commands = Latest(cs_commands)
       /\ conversation.recent_actions = Latest(cs_actions)

C31_Witness ==
    /\ Len(cs_commands) = 12
    /\ Len(conversation.recent_commands) = 10
    /\ conversation.recent_commands[1] = "c3"
    /\ conversation.recent_commands[10] = "ls"

\* C35: reset() returns without blocking: a thread that has entered reset is
\* never left waiting for the lock while holding that lock itself.
C35_ResetDoesNotBlock ==
    \A t \in Threads : ~(st_pc[t] = "acquire" /\ st_lock = t)

\* C37: a change_directory call that returned with success false left
\* current_directory and history as they were when it entered; one that
\* returned with success true left current_directory at the resolved target
\* and history longer by exactly one entry, whose 'from' is the
\* current_directory at entry and whose 'to' is the target; with two threads
\* calling at the same time.
C37_ChangeDirectoryAtomic ==
    \A t \in Threads :
        LET r == st_result[t] IN
        r.returned =>
           IF r.success
           THEN /\ r.target_path \in Directories
                /\ r.exit_directory = r.target_path
                /\ Len(r.exit_history) = r.entry_length + 1
                /\ r.exit_history[Len(r.exit_history)].from = r.entry_directory
                /\ r.exit_history[Len(r.exit_history)].to = r.target_path
           ELSE /\ r.target_path \notin Directories
                /\ r.exit_directory = r.entry_directory
                /\ Len(r.exit_history) = r.entry_length

C37_Witness ==
    /\ st_result["t1"].returned /\ st_result["t1"].success
    /\ st_result["t1"].target_path = "/srv/app/sub"
    /\ st_result["t2"].returned /\ ~st_result["t2"].success
    /\ st_pc["t2"] = "acquire"
    /\ st_lock = None
    /\ st_result["t1"].entry_length = 1
====
